---- MODULE Spec2Model ----
(***************************************************************************)
(* Graph-augmented retrieval engine of cj-rag: the reference graph         *)
(* (CodeGraph), its builder (GraphBuilder), the snapshot save/load and the *)
(* two-stage retriever.                                                    *)
(*                                                                         *)
(* Numbers.  Edge weights, confidences and scores are decimal fractions in *)
(* the program.  Weights and min_weight are kept in hundredths (0.96 is    *)
(* 96), reference confidences and the weight bases in tenths (0.8 is 8),   *)
(* so that base * confidence is a weight in hundredths, exactly.           *)
(* Centrality scores are kept in thousandths.                              *)
(***************************************************************************)
EXTENDS Integers, Sequences, FiniteSets, TLC

VARIABLES graph, op, file, loaded, calls, vector_store, retrieval

vars == <<graph, op, file, loaded, calls, vector_store, retrieval>>

(***************************************************************************)
(* Bounds of the model.                                                    *)
(***************************************************************************)
MaxChunks == 4
MaxNew == 2
MaxUpdates == 1
MaxCalls == 2
MaxDistance == 3
MaxCandidates == 4

(***************************************************************************)
(* Small helpers on sequences and sets.                                    *)
(***************************************************************************)
Min(a, b) == IF a <= b THEN a ELSE b

Abs(a) == IF a < 0 THEN 0 - a ELSE a

Range(s) == {s[i] : i \in 1..Len(s)}

RECURSIVE SumOver(_, _)
SumOver(S, f) ==
    IF S = {} THEN 0
    ELSE LET x == CHOOSE y \in S : TRUE IN f[x] + SumOver(S \ {x}, f)

(***************************************************************************)
(* models.py: the enumerations.                                            *)
(***************************************************************************)
ReferenceType == {"calls", "mentions", "type_reference"}

ElementType == {"function", "class", "struct", "interface", "enum"}

(***************************************************************************)
(* Chunk content.  The extractor is a set of regular expressions over the  *)
(* chunk text; a content is kept as the sequence of the constructs those   *)
(* expressions match, in text order:                                       *)
(*   func  : "func n(p: ty)"   a function definition, ty the parameter     *)
(*                             type ("" when the function has none)        *)
(*   class : "class n"         a type definition                           *)
(*   mcall : "obj.n("          a receiver-qualified call                   *)
(*   fcall : "n("              a bare call                                 *)
(*   word  : "n"               a word of prose                             *)
(***************************************************************************)
Tok(k, n, ty) == [k |-> k, n |-> n, ty |-> ty]

ChunkRec(id, path, line, content) ==
    [id |-> id, file_path |-> path, start_line |-> line, content |-> content]

ChunkIds == {"c1", "c2", "c3", "c4"}

\* An id no chunk of the corpus carries.
UnknownId == "c9"

cA == ChunkRec("c1", "a.md", 0,
               <<Tok("mcall", "Foo", ""), Tok("class", "Qux", "")>>)

cA2 == ChunkRec("c1", "b.md", 10, <<Tok("func", "Bar", "Int64")>>)

cB == ChunkRec("c2", "a.md", 40,
               <<Tok("func", "Foo", ""), Tok("fcall", "Bar", "")>>)

cC == ChunkRec("c3", "b.md", 0,
               <<Tok("class", "Bar", ""), Tok("func", "Baz", "Qux"),
                 Tok("word", "usage", "")>>)

cD == ChunkRec("c4", "a.md", 100,
               <<Tok("func", "Foo", ""), Tok("mcall", "Foo", ""),
                 Tok("fcall", "Foo", "")>>)

Universe == {cA, cA2, cB, cC, cD}

\* content = None: a chunk whose content is not text.
NoContent == <<Tok("None", "", "")>>

cM == ChunkRec("c4", "b.md", 50, NoContent)

\* Chunk lists the builder is given: ids are unique (uuid4 per chunk).
ChunkLists(n) ==
    {s \in UNION {[1..k -> Universe] : k \in 0..n} :
        \A i, j \in 1..Len(s) : i # j => s[i].id # s[j].id}

(***************************************************************************)
(* extractor.py                                                            *)
(***************************************************************************)
PrimitiveTypes == {"Int64", "String", "Bool", "Array"}

_is_custom_type(type_name) == type_name # "" /\ type_name \notin PrimitiveTypes

\* Function definitions first, then the type definitions.
\* FUNCTION_DEF.finditer(chunk.content) raises TypeError when content is not
\* a str; nothing in the extractor catches it.
extract_raises(chunk) == chunk.content = NoContent

extract_elements(chunk) ==
    LET funcs == SelectSeq(chunk.content, LAMBDA t : t.k = "func")
        types == SelectSeq(chunk.content, LAMBDA t : t.k = "class")
    IN [i \in 1..Len(funcs) |->
            [name |-> funcs[i].n, element_type |-> "function"]]
       \o [i \in 1..Len(types) |->
            [name |-> types[i].n, element_type |-> "class"]]

Ref(target, kind, conf) ==
    [target_element |-> target, reference_type |-> kind, confidence |-> conf]

_extract_method_calls(chunk) ==
    LET ms == SelectSeq(chunk.content, LAMBDA t : t.k = "mcall")
    IN [i \in 1..Len(ms) |-> Ref(ms[i].n, "calls", 8)]

_extract_function_calls(chunk) ==
    LET fs == SelectSeq(chunk.content, LAMBDA t : t.k = "fcall")
    IN [i \in 1..Len(fs) |-> Ref(fs[i].n, "calls", 7)]

_extract_type_references(chunk) ==
    LET ts == SelectSeq(chunk.content,
                        LAMBDA t : t.k = "func" /\ _is_custom_type(t.ty))
    IN [i \in 1..Len(ts) |-> Ref(ts[i].ty, "type_reference", 9)]

extract_references(chunk) ==
    _extract_method_calls(chunk) \o _extract_function_calls(chunk)
        \o _extract_type_references(chunk)

\* The extractor object handed to build_references.
CangjieCodeElementExtractor == [c \in Universe |-> extract_references(c)]

(***************************************************************************)
(* graph.py: CodeGraph.                                                    *)
(*   nodes, node_attr, edges, order, succ, pred : the networkx DiGraph.    *)
(*       edges is a function from <<source, target>> to the edge's         *)
(*       attributes, so that a second add_edge on the same pair overwrites *)
(*       the attributes.  networkx keeps nodes and adjacency in insertion  *)
(*       order: order lists the nodes, succ[n] the successors of n and     *)
(*       pred[n] its predecessors, each in the order they were added.      *)
(*   element_index  : element name -> list of chunk ids                    *)
(*   chunk_elements : chunk id -> list of element names                    *)
(*   chunk_metadata : chunk id -> ChunkNode                                *)
(***************************************************************************)
EmptyFcn == [x \in {} |-> 0]

\* CodeGraph.__init__
CodeGraph ==
    [nodes |-> {}, node_attr |-> EmptyFcn, edges |-> EmptyFcn,
     order |-> <<>>, succ |-> EmptyFcn, pred |-> EmptyFcn,
     element_index |-> EmptyFcn, chunk_elements |-> EmptyFcn,
     chunk_metadata |-> EmptyFcn]

\* The attributes of a node that add_edge created (networkx gives it none).
NoAttr == [file_path |-> "", elements |-> <<>>, given |-> FALSE]

ChunkNode(id, names, score) ==
    [chunk_id |-> id, code_elements |-> names, centrality_score |-> score]

\* DiGraph.add_node(n) for a node that may exist already.
nx_add_node(g, n) ==
    IF n \in g.nodes THEN g
    ELSE [g EXCEPT !.nodes = @ \cup {n},
                   !.order = Append(@, n),
                   !.node_attr = (n :> NoAttr) @@ @,
                   !.succ = (n :> <<>>) @@ @,
                   !.pred = (n :> <<>>) @@ @]

\* DiGraph.add_edge(u, v, **data): missing end nodes are created, the
\* attributes of an existing edge are replaced, its place is kept.
nx_add_edge(g, u, v, data) ==
    LET g1 == nx_add_node(nx_add_node(g, u), v)
        known == <<u, v>> \in DOMAIN g1.edges
    IN [g1 EXCEPT
          !.edges = (<<u, v>> :> data) @@ @,
          !.succ = [@ EXCEPT ![u] = IF known THEN @ ELSE Append(@, v)],
          !.pred = [@ EXCEPT ![v] = IF known THEN @ ELSE Append(@, u)]]

\* DiGraph.remove_node(n): the node and every edge at it.
nx_remove_node(g, n) ==
    [g EXCEPT
       !.nodes = @ \ {n},
       !.order = SelectSeq(@, LAMBDA m : m # n),
       !.node_attr = [m \in DOMAIN @ \ {n} |-> @[m]],
       !.edges = [e \in {d \in DOMAIN @ : d[1] # n /\ d[2] # n} |-> @[e]],
       !.succ = [m \in DOMAIN @ \ {n} |-> SelectSeq(@[m], LAMBDA t : t # n)],
       !.pred = [m \in DOMAIN @ \ {n} |-> SelectSeq(@[m], LAMBDA t : t # n)]]

\* element_index[name].append(chunk_id) for every element, in order.
RECURSIVE IndexAppend(_, _, _, _)
IndexAppend(index, names, id, i) ==
    IF i > Len(names) THEN index
    ELSE LET n == names[i]
             old == IF n \in DOMAIN index THEN index[n] ELSE <<>>
         IN IndexAppend((n :> Append(old, id)) @@ index, names, id, i + 1)

add_chunk(g, chunk, elements) ==
    LET element_names == [i \in 1..Len(elements) |-> elements[i].name]
    IN [nx_add_node(g, chunk.id) EXCEPT
          !.chunk_metadata = (chunk.id :> ChunkNode(chunk.id, element_names, 0)) @@ @,
          !.chunk_elements = (chunk.id :> element_names) @@ @,
          !.node_attr = (chunk.id :> [file_path |-> chunk.file_path,
                                      elements |-> element_names,
                                      given |-> TRUE]) @@ @,
          !.element_index = IndexAppend(@, element_names, chunk.id, 1)]

\* A mutant of add_reference_edge: the self-reference test is missing.
add_reference_edge_noguard(g, source_chunk, target_chunk, element, weight, reference_type) ==
    nx_add_edge(g, source_chunk, target_chunk,
                [element |-> element, weight |-> weight,
                 reference_type |-> reference_type])

add_reference_edge(g, source_chunk, target_chunk, element, weight, reference_type) ==
    IF source_chunk = target_chunk THEN g
    ELSE nx_add_edge(g, source_chunk, target_chunk,
                     [element |-> element, weight |-> weight,
                      reference_type |-> reference_type])

\* A mutant of _calculate_edge_weight: the cap at 1.0 is missing.
_calculate_edge_weight_nocap(source_chunk, target_chunk, reference) ==
    LET base == CASE reference.reference_type = "calls" -> 9
                  [] reference.reference_type = "type_reference" -> 8
                  [] reference.reference_type = "mentions" -> 6
                  [] OTHER -> 5
        same == source_chunk.file_path = target_chunk.file_path
        near == same /\ Abs(source_chunk.start_line - target_chunk.start_line) < 50
    IN (base + (IF same THEN 2 ELSE 0) + (IF near THEN 1 ELSE 0))
           * reference.confidence

\* A mutant of _calculate_edge_weight: the proximity test is <= 50.
_calculate_edge_weight_le50(source_chunk, target_chunk, reference) ==
    LET base == CASE reference.reference_type = "calls" -> 9
                  [] reference.reference_type = "type_reference" -> 8
                  [] reference.reference_type = "mentions" -> 6
                  [] OTHER -> 5
        same == source_chunk.file_path = target_chunk.file_path
        near == same /\ Abs(source_chunk.start_line - target_chunk.start_line) <= 50
    IN Min((base + (IF same THEN 2 ELSE 0) + (IF near THEN 1 ELSE 0))
               * reference.confidence, 100)

\* A mutant of _calculate_edge_weight: the sum is capped before confidence.
_calculate_edge_weight_capfirst(source_chunk, target_chunk, reference) ==
    LET base == CASE reference.reference_type = "calls" -> 9
                  [] reference.reference_type = "type_reference" -> 8
                  [] reference.reference_type = "mentions" -> 6
                  [] OTHER -> 5
        same == source_chunk.file_path = target_chunk.file_path
        near == same /\ Abs(source_chunk.start_line - target_chunk.start_line) < 50
    IN Min(base + (IF same THEN 2 ELSE 0) + (IF near THEN 1 ELSE 0), 10)
           * reference.confidence

\* base_weight in tenths, confidence in tenths, the result in hundredths.
_calculate_edge_weight(source_chunk, target_chunk, reference) ==
    LET base == CASE reference.reference_type = "calls" -> 9
                  [] reference.reference_type = "type_reference" -> 8
                  [] reference.reference_type = "mentions" -> 6
                  [] OTHER -> 5
        same == source_chunk.file_path = target_chunk.file_path
        near == same /\ Abs(source_chunk.start_line - target_chunk.start_line) < 50
    IN Min((base + (IF same THEN 2 ELSE 0) + (IF near THEN 1 ELSE 0))
               * reference.confidence, 100)

\* chunk_dict = {chunk.id: chunk for chunk in chunks}: the last one wins.
ChunkDict(chunks) ==
    [id \in {chunks[i].id : i \in 1..Len(chunks)} |->
        chunks[CHOOSE i \in 1..Len(chunks) :
                  /\ chunks[i].id = id
                  /\ \A j \in 1..Len(chunks) : chunks[j].id = id => j <= i]]

\* The loop over target_chunks of one reference.  st = [graph, err]; a
\* target that chunk_dict lacks raises KeyError and ends the call.
RECURSIVE RefTargets(_, _, _, _, _, _)
RefTargets(st, chunk_dict, chunk, ref, targets, k) ==
    IF st.err # "" \/ k > Len(targets) THEN st
    ELSE IF targets[k] = chunk.id
         THEN RefTargets(st, chunk_dict, chunk, ref, targets, k + 1)
    ELSE IF targets[k] \notin DOMAIN chunk_dict
         THEN [st EXCEPT !.err = "KeyError"]
    ELSE RefTargets(
           [st EXCEPT !.graph =
               add_reference_edge(@, chunk.id, targets[k], ref.target_element,
                   _calculate_edge_weight(chunk_dict[chunk.id],
                                          chunk_dict[targets[k]], ref),
                   ref.reference_type)],
           chunk_dict, chunk, ref, targets, k + 1)

\* The loop over the references of one chunk.
RECURSIVE ChunkRefs(_, _, _, _, _)
ChunkRefs(st, chunk_dict, chunk, references, j) ==
    IF st.err # "" \/ j > Len(references) THEN st
    ELSE LET ref == references[j]
             index == st.graph.element_index
             target_chunks == IF ref.target_element \in DOMAIN index
                              THEN index[ref.target_element] ELSE <<>>
         IN ChunkRefs(RefTargets(st, chunk_dict, chunk, ref, target_chunks, 1),
                      chunk_dict, chunk, references, j + 1)

RECURSIVE ChunksLoop(_, _, _, _, _)
ChunksLoop(st, chunk_dict, chunks, extractor, i) ==
    IF st.err # "" \/ i > Len(chunks) THEN st
    ELSE ChunksLoop(ChunkRefs(st, chunk_dict, chunks[i], extractor[chunks[i]], 1),
                    chunk_dict, chunks, extractor, i + 1)

\* Returns [graph, err]: err = "KeyError" when the call raised, graph the
\* graph as the call left it.
build_references(g, chunks, extractor) ==
    ChunksLoop([graph |-> g, err |-> ""], ChunkDict(chunks), chunks, extractor, 1)

(***************************************************************************)
(* get_neighbors                                                           *)
(***************************************************************************)
successors(g, node) == {e[2] : e \in {d \in DOMAIN g.edges : d[1] = node}}

predecessors(g, node) == {e[1] : e \in {d \in DOMAIN g.edges : d[2] = node}}

\* A mutant of NextLevel: incoming edges are not followed.
NextLevel_outonly(g, current_level, min_weight) ==
    UNION {{nb \in successors(g, node) : g.edges[<<node, nb>>].weight >= min_weight}
           : node \in current_level}

\* One level of get_neighbors: what the two inner loops add to next_level.
NextLevel(g, current_level, min_weight) ==
    UNION {{nb \in successors(g, node) : g.edges[<<node, nb>>].weight >= min_weight}
           \cup {nb \in predecessors(g, node) : g.edges[<<nb, node>>].weight >= min_weight}
           : node \in current_level}

RECURSIVE NeighborLevels(_, _, _, _, _, _)
NeighborLevels(g, neighbors, current_level, distance, max_distance, min_weight) ==
    IF distance > max_distance THEN neighbors
    ELSE LET next_level == NextLevel(g, current_level, min_weight)
         IN IF next_level = {} THEN neighbors
            ELSE NeighborLevels(g, neighbors \cup next_level, next_level,
                                distance + 1, max_distance, min_weight)

get_neighbors(g, chunk_id, max_distance, min_weight) ==
    IF chunk_id \notin g.nodes THEN {}
    ELSE NeighborLevels(g, {}, {chunk_id}, 1, max_distance, min_weight)

\* exclude_chunk = "" stands for None.
\* element_index[element_name] on the defaultdict: a missing key is added
\* with an empty list.
element_index_getitem(element_index, element_name) ==
    IF element_name \in DOMAIN element_index
    THEN [element_index |-> element_index, value |-> element_index[element_name]]
    ELSE [element_index |-> (element_name :> <<>>) @@ element_index,
          value |-> <<>>]

\* self.element_index.get(element_name, []): the value, and the index as the
\* lookup leaves it.
element_index_get(element_index, element_name) ==
    [element_index |-> element_index,
     value |-> IF element_name \in DOMAIN element_index
               THEN element_index[element_name] ELSE <<>>]

\* The graph after the element_index lookups of a read, one per name.
RECURSIVE AfterLookups(_, _)
AfterLookups(g, element_names) ==
    IF element_names = <<>> THEN g
    ELSE AfterLookups(
             [g EXCEPT !.element_index =
                 element_index_get(@, Head(element_names)).element_index],
             Tail(element_names))

get_related_by_element(g, element_name, exclude_chunk) ==
    LET related_chunks == element_index_get(g.element_index, element_name).value
    IN IF exclude_chunk # ""
       THEN SelectSeq(related_chunks, LAMBDA chunk_id : chunk_id # exclude_chunk)
       ELSE related_chunks

get_subgraph_for_elements(g, element_names, max_depth) ==
    LET relevant_chunks ==
            UNION {Range(get_related_by_element(g, element_names[i], "")) :
                      i \in 1..Len(element_names)}
    IN relevant_chunks
       \cup UNION {get_neighbors(g, chunk_id, max_depth, 30) :
                      chunk_id \in relevant_chunks}

(***************************************************************************)
(* get_shortest_path: nx.shortest_path without weights is the              *)
(* bidirectional breadth-first search, which grows the smaller of the two  *)
(* fringes, the forward one over succ and the reverse one over pred, each  *)
(* in adjacency order, and stops at the first node both sides have seen.   *)
(* "" stands for None.                                                     *)
(***************************************************************************)
\* The pairs <<v, w>>, w adjacent to v, for the nodes v of a level in order.
RECURSIVE LevelPairs(_, _, _)
LevelPairs(adj, level, i) ==
    IF i > Len(level) THEN <<>>
    ELSE [k \in 1..Len(adj[level[i]]) |-> <<level[i], adj[level[i]][k]>>]
         \o LevelPairs(adj, level, i + 1)

\* One fringe expansion.  seen/fringe are this side's, other the other side's.
RECURSIVE Expand(_, _, _, _, _, _)
Expand(seen, fringe, other, pairs, i, found) ==
    IF found # "" \/ i > Len(pairs)
    THEN [seen |-> seen, fringe |-> fringe, found |-> found]
    ELSE LET v == pairs[i][1]
             w == pairs[i][2]
             fresh == w \notin DOMAIN seen
         IN Expand(IF fresh THEN (w :> v) @@ seen ELSE seen,
                   IF fresh THEN Append(fringe, w) ELSE fringe,
                   other, pairs, i + 1,
                   IF w \in DOMAIN other THEN w ELSE "")

RECURSIVE BiSearch(_, _, _, _, _)
BiSearch(g, pred, succ, forward_fringe, reverse_fringe) ==
    IF forward_fringe = <<>> \/ reverse_fringe = <<>>
    THEN [found |-> "", pred |-> pred, succ |-> succ]
    ELSE IF Len(forward_fringe) <= Len(reverse_fringe)
         THEN LET r == Expand(pred, <<>>, succ,
                              LevelPairs(g.succ, forward_fringe, 1), 1, "")
              IN IF r.found # ""
                 THEN [found |-> r.found, pred |-> r.seen, succ |-> succ]
                 ELSE BiSearch(g, r.seen, succ, r.fringe, reverse_fringe)
         ELSE LET r == Expand(succ, <<>>, pred,
                              LevelPairs(g.pred, reverse_fringe, 1), 1, "")
              IN IF r.found # ""
                 THEN [found |-> r.found, pred |-> pred, succ |-> r.seen]
                 ELSE BiSearch(g, pred, r.seen, forward_fringe, r.fringe)

\* The chain w, link[w], link[link[w]], ... up to None.
RECURSIVE Chain(_, _)
Chain(link, w) == IF w = "" THEN <<>> ELSE <<w>> \o Chain(link, link[w])

\* A mutant of Reverse: the chain is left as it was followed.
Reverse_not(s) == s

Reverse(s) == [i \in 1..Len(s) |-> s[Len(s) + 1 - i]]

get_shortest_path(g, source_chunk, target_chunk) ==
    IF source_chunk \notin g.nodes \/ target_chunk \notin g.nodes THEN <<>>
    ELSE IF source_chunk = target_chunk THEN <<source_chunk>>
    ELSE LET r == BiSearch(g, (source_chunk :> ""), (target_chunk :> ""),
                           <<source_chunk>>, <<target_chunk>>)
         IN IF r.found = "" THEN <<>>
            ELSE Reverse(Chain(r.pred, r.found)) \o Chain(r.succ, r.succ[r.found])

(***************************************************************************)
(* compute_centrality_scores.  nx.pagerank is a power iteration with       *)
(* damping 0.85 over the weight-normalised graph; it is carried out here   *)
(* in thousandths for PageRankRounds rounds.  Whether the library reports  *)
(* PowerIterationFailedToConverge is an input of the operation.            *)
(***************************************************************************)
PageRankRounds == 3

out_weight(g, m) ==
    SumOver(successors(g, m), [t \in successors(g, m) |-> g.edges[<<m, t>>].weight])

RECURSIVE PowerIteration(_, _, _)
PowerIteration(g, x, round) ==
    IF round = 0 THEN x
    ELSE LET N == Cardinality(g.nodes)
             dangling == {m \in g.nodes : out_weight(g, m) = 0}
             danglesum == SumOver(dangling, x)
             inflow(n) ==
                 LET ps == {m \in predecessors(g, n) : out_weight(g, m) > 0}
                 IN SumOver(ps, [m \in ps |->
                        (x[m] * g.edges[<<m, n>>].weight) \div out_weight(g, m)])
         IN PowerIteration(g,
                [n \in g.nodes |->
                    (85 * (inflow(n) + danglesum \div N) + (15 * 1000) \div N) \div 100],
                round - 1)

pagerank(g) ==
    PowerIteration(g, [n \in g.nodes |-> 1000 \div Cardinality(g.nodes)],
                   PageRankRounds)

degree_centrality(g) ==
    LET N == Cardinality(g.nodes)
        degree(n) == Cardinality({e \in DOMAIN g.edges : e[1] = n})
                     + Cardinality({e \in DOMAIN g.edges : e[2] = n})
    IN IF N <= 1 THEN [n \in g.nodes |-> 1000]
       ELSE [n \in g.nodes |-> (1000 * degree(n)) \div (N - 1)]

\* A mutant of compute_centrality_scores: the scores are left as they are.
compute_centrality_scores_not(g, converged) == g

compute_centrality_scores(g, converged) ==
    IF g.nodes = {} THEN g
    ELSE LET pagerank_scores == IF converged THEN pagerank(g)
                                ELSE degree_centrality(g)
         IN [g EXCEPT !.chunk_metadata =
                [id \in DOMAIN @ |->
                    IF id \in DOMAIN pagerank_scores
                    THEN [@[id] EXCEPT !.centrality_score = pagerank_scores[id]]
                    ELSE @[id]]]

(***************************************************************************)
(* graph.py: GraphBuilder.                                                 *)
(***************************************************************************)
RECURSIVE AddChunks(_, _, _)
AddChunks(g, chunks, i) ==
    IF i > Len(chunks) THEN g
    ELSE AddChunks(add_chunk(g, chunks[i], extract_elements(chunks[i])), chunks, i + 1)

\* A mutant of AddParents: an edge that exists already is left as it is.
RECURSIVE AddParents_keep(_, _, _, _)
AddParents_keep(g, child_chunk, parent_chunks, j) ==
    IF j > Len(parent_chunks) THEN g
    ELSE LET p == parent_chunks[j]
             g1 == IF <<child_chunk, p>> \in DOMAIN g.edges THEN g
                   ELSE add_reference_edge(g, child_chunk, p,
                                           "parent_relationship", 85, "mentions")
             g2 == IF <<p, child_chunk>> \in DOMAIN g1.edges THEN g1
                   ELSE add_reference_edge(g1, p, child_chunk,
                                           "child_relationship", 85, "mentions")
         IN AddParents_keep(g2, child_chunk, parent_chunks, j + 1)

\* parent_relationships is a dict child -> [parents], kept as the list of its
\* items <<child, parents>>.  One child's parents, both directions, weight 0.85.
RECURSIVE AddParents(_, _, _, _)
AddParents(g, child_chunk, parent_chunks, j) ==
    IF j > Len(parent_chunks) THEN g
    ELSE AddParents(
           add_reference_edge(
               add_reference_edge(g, child_chunk, parent_chunks[j],
                                  "parent_relationship", 85, "mentions"),
               parent_chunks[j], child_chunk, "child_relationship", 85, "mentions"),
           child_chunk, parent_chunks, j + 1)

RECURSIVE ParentItems(_, _, _)
ParentItems(g, parent_relationships, i) ==
    IF i > Len(parent_relationships) THEN g
    ELSE ParentItems(AddParents(g, parent_relationships[i][1],
                                parent_relationships[i][2], 1),
                     parent_relationships, i + 1)

_add_parent_relationships(g, parent_relationships) ==
    ParentItems(g, parent_relationships, 1)

\* Returns [graph, err]; an error of extract_elements in the first loop or
\* of build_references ends the build.  With an error, graph is the graph
\* as the build left it; the caller does not get it.
build_graph(chunks, parent_relationships, converged) ==
    LET raising == {i \in 1..Len(chunks) : extract_raises(chunks[i])}
        first == CHOOSE i \in raising : \A j \in raising : i <= j
        phase1 == AddChunks(CodeGraph, chunks, 1)
        phase2 == build_references(phase1, chunks, CangjieCodeElementExtractor)
        phase25 == IF parent_relationships # <<>>
                   THEN _add_parent_relationships(phase2.graph, parent_relationships)
                   ELSE phase2.graph
    IN IF raising # {}
       THEN [graph |-> AddChunks(CodeGraph, SubSeq(chunks, 1, first - 1), 1),
             err |-> "TypeError"]
       ELSE IF phase2.err # "" THEN phase2
       ELSE [graph |-> compute_centrality_scores(phase25, converged), err |-> ""]

Restrict(f, S) == [x \in S |-> f[x]]

\* A mutant of RemoveChunk: the element index is left alone.
RemoveChunk_keepindex(g, chunk_id) ==
    IF chunk_id \notin g.nodes THEN g
    ELSE [nx_remove_node(g, chunk_id) EXCEPT
            !.chunk_elements = Restrict(@, DOMAIN @ \ {chunk_id}),
            !.chunk_metadata = Restrict(@, DOMAIN @ \ {chunk_id})]

\* The removal of one chunk id in update_graph.
RemoveChunk(g, chunk_id) ==
    IF chunk_id \notin g.nodes THEN g
    ELSE LET elements == IF chunk_id \in DOMAIN g.chunk_elements
                         THEN Range(g.chunk_elements[chunk_id]) ELSE {}
         IN [nx_remove_node(g, chunk_id) EXCEPT
               !.element_index =
                   [n \in DOMAIN @ |->
                       IF n \in elements
                       THEN SelectSeq(@[n], LAMBDA cid : cid # chunk_id)
                       ELSE @[n]],
               !.chunk_elements = Restrict(@, DOMAIN @ \ {chunk_id}),
               !.chunk_metadata = Restrict(@, DOMAIN @ \ {chunk_id})]

RECURSIVE RemoveChunks(_, _, _)
RemoveChunks(g, removed_chunk_ids, i) ==
    IF i > Len(removed_chunk_ids) THEN g
    ELSE RemoveChunks(RemoveChunk(g, removed_chunk_ids[i]), removed_chunk_ids, i + 1)

\* Returns [graph, err]: when build_references raises, the centrality scores
\* are not recomputed and graph is the graph as the call left it.
update_graph(g, new_chunks, removed_chunk_ids, converged) ==
    LET removed == RemoveChunks(g, removed_chunk_ids, 1)
        added == AddChunks(removed, new_chunks, 1)
        refs == build_references(added, new_chunks, CangjieCodeElementExtractor)
    IN IF refs.err # "" THEN refs
       ELSE [graph |-> compute_centrality_scores(refs.graph, converged), err |-> ""]

(***************************************************************************)
(* Snapshot: save_to_file pickles a dict built from the graph,             *)
(* load_from_file rebuilds a CodeGraph from it.                            *)
(***************************************************************************)
\* The edges in the order G.edges lists them: node by node, each node's
\* successors in adjacency order.
RECURSIVE EdgeList(_, _)
EdgeList(g, i) ==
    IF i > Len(g.order) THEN <<>>
    ELSE [k \in 1..Len(g.succ[g.order[i]]) |-> <<g.order[i], g.succ[g.order[i]][k]>>]
         \o EdgeList(g, i + 1)

\* nx.node_link_data: the nodes with their attributes, the edges as links.
node_link_data(g) ==
    LET es == EdgeList(g, 1)
    IN [directed |-> TRUE,
        nodes |-> [i \in 1..Len(g.order) |->
                     [id |-> g.order[i], attr |-> g.node_attr[g.order[i]]]],
        links |-> [i \in 1..Len(es) |->
                     [source |-> es[i][1], target |-> es[i][2],
                      element |-> g.edges[es[i]].element,
                      weight |-> g.edges[es[i]].weight,
                      reference_type |-> g.edges[es[i]].reference_type]]]

\* A mutant of save_to_file: centrality is rounded as in save_metadata_json.
save_to_file_rounded(g) ==
    [graph |-> node_link_data(g),
     element_index |-> g.element_index,
     chunk_elements |-> g.chunk_elements,
     chunk_metadata |->
         [id \in DOMAIN g.chunk_metadata |->
             [chunk_id |-> g.chunk_metadata[id].chunk_id,
              code_elements |-> g.chunk_metadata[id].code_elements,
              centrality_score |->
                  ((g.chunk_metadata[id].centrality_score + 50) \div 100) * 100]]]

\* The pickled graph_data.
save_to_file(g) ==
    [graph |-> node_link_data(g),
     element_index |-> g.element_index,
     chunk_elements |-> g.chunk_elements,
     chunk_metadata |->
         [id \in DOMAIN g.chunk_metadata |->
             [chunk_id |-> g.chunk_metadata[id].chunk_id,
              code_elements |-> g.chunk_metadata[id].code_elements,
              centrality_score |-> g.chunk_metadata[id].centrality_score]]]

RECURSIVE LinkNodes(_, _, _)
LinkNodes(g, nodes, i) ==
    IF i > Len(nodes) THEN g
    ELSE LinkNodes([nx_add_node(g, nodes[i].id) EXCEPT
                       !.node_attr = (nodes[i].id :> nodes[i].attr) @@ @],
                   nodes, i + 1)

RECURSIVE LinkEdges(_, _, _)
LinkEdges(g, links, i) ==
    IF i > Len(links) THEN g
    ELSE LinkEdges(nx_add_edge(g, links[i].source, links[i].target,
                               [element |-> links[i].element,
                                weight |-> links[i].weight,
                                reference_type |-> links[i].reference_type]),
                   links, i + 1)

\* nx.node_link_graph(data, edges="links"): the nodes are added in the order
\* of the node list, then the edges in the order of the link list.
node_link_graph(data) ==
    LinkEdges(LinkNodes(CodeGraph, data.nodes, 1), data.links, 1)

load_from_file(graph_data) ==
    [node_link_graph(graph_data.graph) EXCEPT
        !.element_index = graph_data.element_index,
        !.chunk_elements = graph_data.chunk_elements,
        !.chunk_metadata =
            [id \in DOMAIN graph_data.chunk_metadata |->
                ChunkNode(graph_data.chunk_metadata[id].chunk_id,
                          graph_data.chunk_metadata[id].code_elements,
                          graph_data.chunk_metadata[id].centrality_score)]]

(***************************************************************************)
(* vector_store.py: MilvusVectorStore.  client says whether the Milvus     *)
(* client was set up; collection is what was inserted into Milvus,         *)
(* fallback_storage the in-memory store used without a client.             *)
(***************************************************************************)
\* Element names in sorted order.
NameOrder == <<"Bar", "Baz", "Foo", "Qux">>

get_code_element_names(chunk) ==
    SelectSeq(NameOrder,
              LAMBDA n : \E i \in 1..Len(extract_elements(chunk)) :
                            extract_elements(chunk)[i].name = n)

ChunkMetadata(chunk) == [code_elements |-> get_code_element_names(chunk)]

ChunkResult(id, content, score, metadata) ==
    [id |-> id, content |-> content, score |-> score, metadata |-> metadata]

None == [none |-> TRUE]

MilvusVectorStore(client) ==
    [client |-> client, collection |-> <<>>, fallback_storage |-> EmptyFcn]

store_chunks(vs, chunks) ==
    IF chunks = <<>> THEN vs
    ELSE IF ~vs.client
         THEN [vs EXCEPT !.fallback_storage =
                  [id \in DOMAIN @ \cup DOMAIN ChunkDict(chunks) |->
                      IF id \in DOMAIN ChunkDict(chunks)
                      THEN ChunkDict(chunks)[id] ELSE @[id]]]
    ELSE [vs EXCEPT !.collection = @ \o chunks]

\* The chunks a search ranks: the collection, or the fallback storage.
Searchable(vs) ==
    IF vs.client THEN Range(vs.collection)
    ELSE {vs.fallback_storage[id] : id \in DOMAIN vs.fallback_storage}

\* Similarity scores in tenths: one below relevance_threshold, one above.
Scores == {2, 9}

\* semantic_search: the similarity ranking comes from the embedding model
\* and the index, so every ranking of at most top_k stored chunks with
\* non-increasing scores is a possible answer; the index may also answer
\* with no match.  The operator is the set of possible answers.
semantic_search(vs, query, top_k) ==
    LET pool == Searchable(vs)
        n == Min(top_k, Cardinality(pool))
    IN {<<>>} \cup
       {[i \in 1..n |-> ChunkResult(r[i].id, r[i].content, sc[i], ChunkMetadata(r[i]))] :
            r \in {x \in [1..n -> pool] : \A i, j \in 1..n : i # j => x[i] # x[j]},
            sc \in {y \in [1..n -> Scores] : \A i, j \in 1..n : i < j => y[i] >= y[j]}}

\* Both modes read fallback_storage; score 1.0.
get_chunk_by_id(vs, chunk_id) ==
    IF chunk_id \notin DOMAIN vs.fallback_storage THEN None
    ELSE ChunkResult(chunk_id, vs.fallback_storage[chunk_id].content, 10,
                     ChunkMetadata(vs.fallback_storage[chunk_id]))

(***************************************************************************)
(* retriever.py: QueryAnalyzer.  A query is a sequence of tokens:          *)
(*   call  : "n(...)"    a function mention                                *)
(*   type  : "class n"   a type mention                                    *)
(*   ident : "n"         a capitalised or camel-case identifier            *)
(*   word  : "n"         a lower-case word                                 *)
(***************************************************************************)
\* The keywords and indicators that are substrings of a lower-case word.
Substrings(word) ==
    CASE word = "usage" -> {"usage", "use"}
      [] word = "example" -> {"example"}
      [] word = "error" -> {"error"}
      [] word = "define" -> {"define"}
      [] OTHER -> {}

WordsOf(tokens) ==
    UNION {Substrings(tokens[i].n) :
              i \in {j \in 1..Len(tokens) : tokens[j].k = "word"}}

\* intent_patterns in the order of the dict.
intent_patterns ==
    << <<"definition", {"what is", "define", "definition of", "explain"}>>,
       <<"usage", {"how to use", "example", "usage", "use", "implement"}>>,
       <<"troubleshooting",
         {"error", "problem", "issue", "debug", "fix", "troubleshoot"}>>,
       <<"comparison", {"vs", "versus", "compare", "difference", "between"}>> >>

RECURSIVE FirstIntent(_, _)
FirstIntent(query, i) ==
    IF i > Len(intent_patterns) THEN "general"
    ELSE IF intent_patterns[i][2] \cap WordsOf(query) # {}
         THEN intent_patterns[i][1]
    ELSE FirstIntent(query, i + 1)

\* code_elements is list(set(...)): its order is not used, it is kept a set.
analyze_query(query) ==
    [code_elements |->
         {query[i].n : i \in {j \in 1..Len(query) :
                                 query[j].k \in {"call", "type", "ident"}}},
     intent |-> FirstIntent(query, 1)]

(***************************************************************************)
(* retriever.py: ResultRanker.  A ChunkResult's score is in tenths when it *)
(* comes from the vector store; the combined score is in units of          *)
(* 1/6000000, in which 0.7 * semantic + 0.3 * (0.3 * centrality            *)
(* + 0.4 * overlap + 0.3 * intent) is a whole number.                      *)
(***************************************************************************)
intent_indicators ==
    [definition |-> {"definition", "is a", "represents", "type of"},
     usage |-> {"example", "use", "usage", "implement", "call"},
     troubleshooting |-> {"error", "problem", "issue", "solution", "fix"},
     comparison |-> {"vs", "versus", "compare", "difference", "unlike"}]

\* In sixtieths.
_calculate_intent_score(chunk, intent) ==
    IF intent \notin DOMAIN intent_indicators THEN 30
    ELSE Min((60 * Cardinality(intent_indicators[intent] \cap WordsOf(chunk.content)))
                 \div Cardinality(intent_indicators[intent]), 60)

_calculate_combined_score(g, chunk, query_analysis, config) ==
    LET chunk_elements == Range(chunk.metadata.code_elements)
        query_elements == query_analysis.code_elements
        overlap == IF query_elements = {} THEN 0
                   ELSE (60 * Cardinality(chunk_elements \cap query_elements))
                            \div Cardinality(query_elements)
        graph_score ==
            IF config.rerank_by_graph /\ chunk.id \in DOMAIN g.chunk_metadata
            THEN 540 * g.chunk_metadata[chunk.id].centrality_score
                 + 12000 * overlap
                 + 9000 * _calculate_intent_score(chunk, query_analysis.intent)
            ELSE 0
    IN 420000 * chunk.score + graph_score

_is_diverse_enough(g, candidate, selected) ==
    \A i \in 1..Len(selected) :
        LET candidate_elements == Range(candidate.metadata.code_elements)
            selected_elements == Range(selected[i].metadata.code_elements)
        IN ~ /\ candidate.id \in DOMAIN g.chunk_metadata
             /\ selected[i].id \in DOMAIN g.chunk_metadata
             /\ candidate_elements # {}
             /\ selected_elements # {}
             /\ 10 * Cardinality(candidate_elements \cap selected_elements)
                   > 7 * Cardinality(candidate_elements \cup selected_elements)

\* The loop over chunks[1:].
RECURSIVE DiverseLoop(_, _, _, _, _)
DiverseLoop(g, chunks, selected, target_count, i) ==
    IF i > Len(chunks) \/ Len(selected) >= target_count THEN selected
    ELSE DiverseLoop(g, chunks,
                     IF _is_diverse_enough(g, chunks[i], selected)
                     THEN Append(selected, chunks[i]) ELSE selected,
                     target_count, i + 1)

\* FillLoop taking the last candidate not yet selected instead of the first.
RECURSIVE FillLoop_last(_, _, _)
FillLoop_last(chunks, selected, target_count) ==
    IF ~(Len(selected) < target_count /\ Len(selected) < Len(chunks))
    THEN selected
    ELSE LET rest == {i \in 1..Len(chunks) : chunks[i] \notin Range(selected)}
         IN IF rest = {} THEN selected
            ELSE FillLoop_last(chunks,
                          Append(selected,
                                 chunks[CHOOSE i \in rest : \A j \in rest : i >= j]),
                          target_count)

\* The loop that fills the remaining slots.
RECURSIVE FillLoop(_, _, _)
FillLoop(chunks, selected, target_count) ==
    IF ~(Len(selected) < target_count /\ Len(selected) < Len(chunks))
    THEN selected
    ELSE LET rest == {i \in 1..Len(chunks) : chunks[i] \notin Range(selected)}
         IN IF rest = {} THEN selected
            ELSE FillLoop(chunks,
                          Append(selected,
                                 chunks[CHOOSE i \in rest : \A j \in rest : i <= j]),
                          target_count)

_apply_diversity_filter(g, chunks, target_count) ==
    IF Len(chunks) <= target_count THEN chunks
    ELSE FillLoop(chunks, DiverseLoop(g, chunks, <<chunks[1]>>, target_count, 2),
                  target_count)

\* list.sort(key=score, reverse=True): stable, equal scores keep their order.
RECURSIVE SortByScore(_, _, _)
SortByScore(sorted, chunks, i) ==
    IF i > Len(chunks) THEN sorted
    ELSE LET k == Cardinality({j \in 1..Len(sorted) :
                                  sorted[j].score >= chunks[i].score})
         IN SortByScore(SubSeq(sorted, 1, k) \o <<chunks[i]>>
                            \o SubSeq(sorted, k + 1, Len(sorted)),
                        chunks, i + 1)

rank_results(g, chunks, query_analysis, config) ==
    IF chunks = <<>> THEN <<>>
    ELSE LET scored_chunks ==
                 SortByScore(<<>>,
                     [i \in 1..Len(chunks) |->
                         [chunks[i] EXCEPT !.score =
                             _calculate_combined_score(g, chunks[i],
                                                       query_analysis, config)]],
                     1)
             filtered ==
                 IF config.max_total_chunks < Len(scored_chunks)
                 THEN _apply_diversity_filter(g,
                          SubSeq(scored_chunks, 1,
                                 Min(config.max_total_chunks * 2, Len(scored_chunks))),
                          config.max_total_chunks)
                 ELSE scored_chunks
         IN SubSeq(filtered, 1, Min(config.max_total_chunks, Len(filtered)))

(***************************************************************************)
(* retriever.py: GraphRAGRetriever.                                        *)
(***************************************************************************)
RECURSIVE SeqOf(_)
SeqOf(S) == IF S = {} THEN <<>>
            ELSE LET x == CHOOSE y \in S : TRUE IN <<x>> \o SeqOf(S \ {x})

\* A mutant of _graph_expand: the neighbours of every seed are added.
_graph_expand_nothreshold(g, seed_chunks, query_analysis, config) ==
    LET mentioned_elements == query_analysis.code_elements
    IN {seed_chunks[i].id : i \in 1..Len(seed_chunks)}
       \cup UNION {get_neighbors(g, seed_chunks[i].id, config.max_graph_distance, 30) :
                      i \in 1..Len(seed_chunks)}
       \cup UNION {{chunk_id \in Range(get_related_by_element(g, element, "")) :
                       /\ chunk_id \in DOMAIN g.chunk_metadata
                       /\ g.chunk_metadata[chunk_id].centrality_score > 100} :
                      element \in mentioned_elements}
       \cup (IF Cardinality(mentioned_elements) > 1
             THEN get_subgraph_for_elements(g, SeqOf(mentioned_elements), 1)
             ELSE {})

_graph_expand(g, seed_chunks, query_analysis, config) ==
    LET mentioned_elements == query_analysis.code_elements
    IN {seed_chunks[i].id : i \in 1..Len(seed_chunks)}
       \cup UNION {get_neighbors(g, seed_chunks[i].id, config.max_graph_distance, 30) :
                      i \in {j \in 1..Len(seed_chunks) :
                                seed_chunks[j].score >= config.relevance_threshold}}
       \cup UNION {{chunk_id \in Range(get_related_by_element(g, element, "")) :
                       /\ chunk_id \in DOMAIN g.chunk_metadata
                       /\ g.chunk_metadata[chunk_id].centrality_score > 100} :
                      element \in mentioned_elements}
       \cup (IF Cardinality(mentioned_elements) > 1
             THEN get_subgraph_for_elements(g, SeqOf(mentioned_elements), 1)
             ELSE {})

\* The ids _get_chunks_by_ids asks the vector store for.
Lookups(chunk_ids, initial_chunks) ==
    chunk_ids \ {initial_chunks[i].id : i \in 1..Len(initial_chunks)}

\* order is the order in which the loop meets the ids of Lookups (chunk_ids
\* is a set of strings: its iteration order is not fixed).
_get_chunks_by_ids(vs, order, initial_chunks) ==
    initial_chunks
        \o [i \in 1..Len(SelectSeq(order, LAMBDA id : get_chunk_by_id(vs, id) # None)) |->
               get_chunk_by_id(vs,
                   SelectSeq(order, LAMBDA id : get_chunk_by_id(vs, id) # None)[i])]

\* RetrievalConfig() and two tighter configurations.
RetrievalConfig ==
    [initial_k |-> 5, max_graph_distance |-> 2, relevance_threshold |-> 3,
     max_total_chunks |-> 20, rerank_by_graph |-> TRUE]

Configs ==
    {RetrievalConfig,
     [RetrievalConfig EXCEPT !.initial_k = 1, !.max_graph_distance = 1,
                             !.rerank_by_graph = FALSE],
     [RetrievalConfig EXCEPT !.max_total_chunks = 1]}

\* A mutant of AfterSeed: no short circuit on an empty seed list.
AfterSeed_always(initial_chunks) == "expand"

\* if not initial_chunks: return []
AfterSeed(initial_chunks) == IF initial_chunks = <<>> THEN "done" ELSE "expand"

\* retrieve's frame: its position, its locals, the stages it has run, the
\* ids it asked get_chunk_by_id for, and the value it returned.
Idle ==
    [pc |-> "idle", query |-> <<>>, config |-> RetrievalConfig,
     query_analysis |-> analyze_query(<<>>), initial_chunks |-> <<>>,
     expanded_chunk_ids |-> {}, all_chunks |-> <<>>, stages |-> <<>>,
     lookups |-> <<>>, result |-> <<>>]

(***************************************************************************)
(* The builder-level specification: build_graph, then the snapshot written *)
(* and read back.                                                          *)
(***************************************************************************)
NoFile == [exists |-> FALSE]

NoGraph == [exists |-> FALSE]

\* The parent_relationships maps given to build_graph (None is the empty one).
ParentMaps ==
    { <<>>,
      << <<"c1", <<"c2">>>> >>,
      << <<"c2", <<"c2", "c3">>>> >>,
      << <<"c3", <<"c2", "c4">>>> >>,
      << <<"c3", <<UnknownId>>>> >> }

Init ==
    /\ graph = CodeGraph
    /\ op = [name |-> "init"]
    /\ file = NoFile
    /\ loaded = NoGraph
    /\ calls = 0
    /\ vector_store = MilvusVectorStore(FALSE)
    /\ retrieval = Idle

BuildGraph ==
    /\ op.name = "init"
    /\ \E chunks \in ChunkLists(MaxChunks), parent_relationships \in ParentMaps,
          converged \in BOOLEAN :
          LET r == build_graph(chunks, parent_relationships, converged)
          IN /\ graph' = r.graph
             /\ op' = [name |-> "build_graph", chunks |-> chunks,
                       parent_relationships |-> parent_relationships,
                       err |-> r.err]
    /\ UNCHANGED <<file, loaded, calls>>
    /\ UNCHANGED <<vector_store, retrieval>>

SaveToFile ==
    /\ op.name # "init"
    /\ ~file.exists
    /\ file' = [exists |-> TRUE, data |-> save_to_file(graph)]
    /\ op' = [name |-> "save_to_file"]
    /\ UNCHANGED <<graph, loaded, calls>>
    /\ UNCHANGED <<vector_store, retrieval>>

LoadFromFile ==
    /\ file.exists
    /\ ~loaded.exists
    /\ loaded' = [exists |-> TRUE, graph |-> load_from_file(file.data)]
    /\ op' = [name |-> "load_from_file"]
    /\ UNCHANGED <<graph, file, calls>>
    /\ UNCHANGED <<vector_store, retrieval>>

Next == BuildGraph \/ SaveToFile \/ LoadFromFile

Spec == Init /\ [][Next]_vars

(***************************************************************************)
(* The update specification: a graph that build_graph made, then at most   *)
(* MaxUpdates calls of update_graph.                                       *)
(***************************************************************************)
NewChunkLists ==
    {s \in ChunkLists(MaxNew) : \A i \in 1..Len(s) : s[i] \in {cA, cA2, cD}}

UpdateRemovedLists == {<<>>, <<"c1">>, <<"c2">>, <<"c1", UnknownId>>}

InitUpdate ==
    /\ \E chunks \in ChunkLists(MaxNew), parent_relationships \in ParentMaps,
          converged \in BOOLEAN :
          /\ graph = build_graph(chunks, parent_relationships, converged).graph
          /\ op = [name |-> "build_graph", chunks |-> chunks,
                   parent_relationships |-> parent_relationships,
                   err |-> build_graph(chunks, parent_relationships, converged).err]
    /\ file = NoFile
    /\ loaded = NoGraph
    /\ calls = 0
    /\ vector_store = MilvusVectorStore(FALSE)
    /\ retrieval = Idle

\* new_chunks are new: their ids are unique and not ids of chunks the graph
\* still holds after the removal.  op keeps the graph before the call (pre)
\* and the graph as the removal loop left it (mid).
UpdateGraph ==
    /\ calls < MaxUpdates
    /\ \E new_chunks \in NewChunkLists, removed_chunk_ids \in UpdateRemovedLists,
          converged \in BOOLEAN :
          /\ \A i \in 1..Len(new_chunks) :
                new_chunks[i].id \notin
                    DOMAIN RemoveChunks(graph, removed_chunk_ids, 1).chunk_metadata
          /\ LET r == update_graph(graph, new_chunks, removed_chunk_ids, converged)
             IN /\ graph' = r.graph
                /\ op' = [name |-> "update_graph", new_chunks |-> new_chunks,
                          removed_chunk_ids |-> removed_chunk_ids,
                          pre |-> graph,
                          mid |-> RemoveChunks(graph, removed_chunk_ids, 1),
                          err |-> r.err]
    /\ calls' = calls + 1
    /\ UNCHANGED <<file, loaded>>
    /\ UNCHANGED <<vector_store, retrieval>>

NextUpdate == UpdateGraph

SpecUpdate == InitUpdate /\ [][NextUpdate]_vars

(***************************************************************************)
(* The query specification: a graph that build_graph made, then one read   *)
(* operation on it.                                                        *)
(***************************************************************************)
\* min_weight values: the default 0.3, the weight of a parent edge, above it.
MinWeights == {30, 85, 90}

InitQuery ==
    /\ \E chunks \in ChunkLists(MaxChunks), parent_relationships \in ParentMaps :
          /\ graph = build_graph(chunks, parent_relationships, TRUE).graph
          /\ op = [name |-> "build_graph", chunks |-> chunks,
                   parent_relationships |-> parent_relationships,
                   err |-> build_graph(chunks, parent_relationships, TRUE).err]
    /\ file = NoFile
    /\ loaded = NoGraph
    /\ calls = 0
    /\ vector_store = MilvusVectorStore(FALSE)
    /\ retrieval = Idle

GetNeighbors ==
    /\ op.name = "build_graph"
    /\ \E chunk_id \in ChunkIds \cup {UnknownId}, max_distance \in 0..MaxDistance,
          min_weight \in MinWeights :
          op' = [name |-> "get_neighbors", chunk_id |-> chunk_id,
                 max_distance |-> max_distance, min_weight |-> min_weight,
                 result |-> get_neighbors(graph, chunk_id, max_distance, min_weight)]
    /\ calls' = calls + 1
    /\ UNCHANGED <<graph, file, loaded>>
    /\ UNCHANGED <<vector_store, retrieval>>

NextQuery == GetNeighbors

SpecQuery == InitQuery /\ [][NextQuery]_vars

(***************************************************************************)
(* The retrieval specification: a corpus is indexed and its graph built,   *)
(* then retrieve runs, one stage per step.                                 *)
(***************************************************************************)
Corpora == {<<>>, <<cB, cC>>, <<cA, cB, cC>>}

Queries ==
    { <<>>,
      <<Tok("word", "example", ""), Tok("call", "Foo", "")>>,
      <<Tok("type", "Bar", ""), Tok("ident", "Qux", "")>>,
      <<Tok("word", "error", "")>> }

\* The orders in which a loop may meet the elements of a set.
Orders(S) ==
    {o \in [1..Cardinality(S) -> S] :
        \A i, j \in 1..Cardinality(S) : i # j => o[i] # o[j]}

\* stored is what store_chunks was given: the corpus, or nothing when the
\* graph came from a snapshot and the index was never filled.
InitRetrieve ==
    /\ \E corpus \in Corpora, client \in BOOLEAN, stored \in Corpora :
          /\ stored \in {corpus, <<>>}
          /\ graph = build_graph(corpus, <<>>, TRUE).graph
          /\ vector_store = store_chunks(MilvusVectorStore(client), stored)
          /\ op = [name |-> "build_graph", chunks |-> corpus,
                   parent_relationships |-> <<>>, err |-> ""]
    /\ file = NoFile
    /\ loaded = NoGraph
    /\ calls = 0
    /\ retrieval = Idle

\* query_analysis = self.query_analyzer.analyze_query(query)
RetrieveAnalyze ==
    /\ retrieval.pc = "idle"
    /\ \E query \in Queries, config \in Configs :
          retrieval' = [retrieval EXCEPT
              !.pc = "seed", !.query = query, !.config = config,
              !.query_analysis = analyze_query(query),
              !.stages = Append(@, "query_analysis")]
    /\ UNCHANGED <<graph, op, file, loaded, calls, vector_store>>

\* initial_chunks = self.vector_store.semantic_search(query, config.initial_k)
RetrieveSeed ==
    /\ retrieval.pc = "seed"
    /\ \E initial_chunks \in semantic_search(vector_store, retrieval.query,
                                             retrieval.config.initial_k) :
          retrieval' = [retrieval EXCEPT
              !.pc = AfterSeed(initial_chunks),
              !.initial_chunks = initial_chunks,
              !.stages = Append(@, "seed_search")]
    /\ UNCHANGED <<graph, op, file, loaded, calls, vector_store>>

\* expanded_chunk_ids = self._graph_expand(...)
RetrieveExpand ==
    /\ retrieval.pc = "expand"
    /\ retrieval' = [retrieval EXCEPT
          !.pc = "hydrate",
          !.expanded_chunk_ids =
              _graph_expand(graph, retrieval.initial_chunks,
                            retrieval.query_analysis, retrieval.config),
          !.stages = Append(@, "graph_expansion")]
    /\ UNCHANGED <<graph, op, file, loaded, calls, vector_store>>

\* all_chunks = self._get_chunks_by_ids(expanded_chunk_ids, initial_chunks)
RetrieveHydrate ==
    /\ retrieval.pc = "hydrate"
    /\ \E order \in Orders(Lookups(retrieval.expanded_chunk_ids,
                                   retrieval.initial_chunks)) :
          retrieval' = [retrieval EXCEPT
              !.pc = "rank",
              !.all_chunks = _get_chunks_by_ids(vector_store, order,
                                                retrieval.initial_chunks),
              !.lookups = order,
              !.stages = Append(@, "hydration")]
    /\ UNCHANGED <<graph, op, file, loaded, calls, vector_store>>

\* final_results = self.result_ranker.rank_results(...); return final_results
RetrieveRank ==
    /\ retrieval.pc = "rank"
    /\ retrieval' = [retrieval EXCEPT
          !.pc = "done",
          !.result = rank_results(graph, retrieval.all_chunks,
                                  retrieval.query_analysis, retrieval.config),
          !.stages = Append(@, "ranking")]
    /\ UNCHANGED <<graph, op, file, loaded, calls, vector_store>>

NextRetrieve ==
    \/ RetrieveAnalyze
    \/ RetrieveSeed
    \/ RetrieveExpand
    \/ RetrieveHydrate
    \/ RetrieveRank

SpecRetrieve == InitRetrieve /\ [][NextRetrieve]_vars

(***************************************************************************)
(* The build specification: build_graph statement by statement.  op holds  *)
(* the call's frame: its position pc, the index i of the first loop, how   *)
(* often compute_centrality_scores has run.                                *)
(***************************************************************************)
\* graph = CodeGraph()
BuildStart ==
    /\ op.name = "init"
    /\ \E chunks \in ChunkLists(MaxNew), parent_relationships \in ParentMaps,
          converged \in BOOLEAN :
          op' = [name |-> "build_graph", pc |-> "phase1", i |-> 1,
                 chunks |-> chunks, parent_relationships |-> parent_relationships,
                 converged |-> converged, centrality_runs |-> 0, err |-> ""]
    /\ graph' = CodeGraph
    /\ UNCHANGED <<file, loaded, calls, vector_store, retrieval>>

\* One round of the first loop: extract_elements, add_chunk.
BuildAddChunk ==
    /\ op.name = "build_graph"
    /\ op.pc = "phase1"
    /\ op.i <= Len(op.chunks)
    /\ graph' = add_chunk(graph, op.chunks[op.i], extract_elements(op.chunks[op.i]))
    /\ op' = [op EXCEPT !.i = @ + 1]
    /\ UNCHANGED <<file, loaded, calls, vector_store, retrieval>>

\* A mutant of BuildReferences: it does not wait for the end of the first loop.
BuildReferences_early ==
    /\ op.name = "build_graph"
    /\ op.pc = "phase1"
    /\ LET refs == build_references(graph, SubSeq(op.chunks, 1, op.i - 1),
                                    CangjieCodeElementExtractor)
       IN /\ graph' = refs.graph
          /\ op' = [op EXCEPT !.pc = IF refs.err # "" THEN "raised" ELSE "phase25",
                              !.err = refs.err]
    /\ UNCHANGED <<file, loaded, calls, vector_store, retrieval>>

\* graph.build_references(chunks, self.extractor), after the first loop.
BuildReferences ==
    /\ op.name = "build_graph"
    /\ op.pc = "phase1"
    /\ op.i > Len(op.chunks)
    /\ LET refs == build_references(graph, op.chunks, CangjieCodeElementExtractor)
       IN /\ graph' = refs.graph
          /\ op' = [op EXCEPT !.pc = IF refs.err # "" THEN "raised" ELSE "phase25",
                              !.err = refs.err]
    /\ UNCHANGED <<file, loaded, calls, vector_store, retrieval>>

\* if parent_relationships: self._add_parent_relationships(...)
BuildParents ==
    /\ op.name = "build_graph"
    /\ op.pc = "phase25"
    /\ graph' = IF op.parent_relationships # <<>>
                THEN _add_parent_relationships(graph, op.parent_relationships)
                ELSE graph
    /\ op' = [op EXCEPT !.pc = "phase3"]
    /\ UNCHANGED <<file, loaded, calls, vector_store, retrieval>>

\* graph.compute_centrality_scores(); return graph
BuildCentrality ==
    /\ op.name = "build_graph"
    /\ op.pc = "phase3"
    /\ graph' = compute_centrality_scores(graph, op.converged)
    /\ op' = [op EXCEPT !.pc = "done", !.centrality_runs = @ + 1]
    /\ UNCHANGED <<file, loaded, calls, vector_store, retrieval>>

NextBuild ==
    \/ BuildStart
    \/ BuildAddChunk
    \/ BuildReferences
    \/ BuildParents
    \/ BuildCentrality

SpecBuild == Init /\ [][NextBuild]_vars

(***************************************************************************)
(* The expansion specification: retrieve stage by stage, where a graph     *)
(* call made by one of the three strategies of _graph_expand may raise     *)
(* (range() on a max_graph_distance that is not an int, a node removed     *)
(* under the traversal).  _graph_expand and retrieve hold no try: the      *)
(* exception leaves retrieve.  The stages log names the strategy.          *)
(***************************************************************************)
\* The strategies that make a graph call for these seeds and this query.
RunningStrategies(seed_chunks, query_analysis, config) ==
    {"neighbor" : i \in {j \in 1..Len(seed_chunks) :
                            seed_chunks[j].score >= config.relevance_threshold}}
        \cup {"element" : e \in query_analysis.code_elements}
        \cup (IF Cardinality(query_analysis.code_elements) > 1
              THEN {"subgraph"} ELSE {})

RetrieveExpandRaises ==
    /\ retrieval.pc = "expand"
    /\ \E strategy \in RunningStrategies(retrieval.initial_chunks,
                                         retrieval.query_analysis, retrieval.config) :
          retrieval' = [retrieval EXCEPT !.pc = "raised",
                                         !.stages = Append(@, strategy)]
    /\ UNCHANGED <<graph, op, file, loaded, calls, vector_store>>

NextExpand ==
    \/ RetrieveAnalyze
    \/ RetrieveSeed
    \/ RetrieveExpand
    \/ RetrieveExpandRaises
    \/ RetrieveHydrate
    \/ RetrieveRank

SpecExpand == InitRetrieve /\ [][NextExpand]_vars

(***************************************************************************)
(* The save specification: build_and_save_graph, with save_to_file taken   *)
(* in its two effects on the file at file_path: open(file_path, 'wb')      *)
(* creates the file or empties it, pickle.dump fills it.  The call may be  *)
(* interrupted between the two and in the middle of the dump (the process  *)
(* is killed, the disk is full); what is written of the pickle by then is  *)
(* Truncated.  At the start file_path holds no file or an earlier          *)
(* snapshot, which op keeps as previous.                                   *)
(***************************************************************************)
Truncated == [truncated |-> TRUE]

\* Chunk lists with one chunk whose content is not text.
MalformedLists == {<<cB, cM, cC>>, <<cB, cC, cM>>}

InitSave ==
    /\ graph = CodeGraph
    /\ op = [name |-> "init"]
    /\ file \in {NoFile,
                 [exists |-> TRUE,
                  data |-> save_to_file(build_graph(<<cB, cC>>, <<>>, TRUE).graph)]}
    /\ loaded = NoGraph
    /\ calls = 0
    /\ vector_store = MilvusVectorStore(FALSE)
    /\ retrieval = Idle

\* graph = self.build_graph(chunks, parent_relationships)
BuildForSave ==
    /\ op.name = "init"
    /\ \E chunks \in ChunkLists(MaxNew) \cup MalformedLists,
          parent_relationships \in ParentMaps, converged \in BOOLEAN :
          LET r == build_graph(chunks, parent_relationships, converged)
          IN /\ graph' = r.graph
             /\ op' = [name |-> "build_and_save_graph",
                       pc |-> IF r.err # "" THEN "raised" ELSE "open",
                       chunks |-> chunks,
                       parent_relationships |-> parent_relationships,
                       err |-> r.err, previous |-> file]
    /\ UNCHANGED <<file, loaded, calls, vector_store, retrieval>>

\* with open(file_path, 'wb') as f:
SaveOpen ==
    /\ op.name = "build_and_save_graph"
    /\ op.pc = "open"
    /\ file' = [exists |-> TRUE, data |-> Truncated]
    /\ op' = [op EXCEPT !.pc = "dump"]
    /\ UNCHANGED <<graph, loaded, calls, vector_store, retrieval>>

\* pickle.dump(graph_data, f)
SaveDump ==
    /\ op.name = "build_and_save_graph"
    /\ op.pc = "dump"
    /\ file' = [exists |-> TRUE, data |-> save_to_file(graph)]
    /\ op' = [op EXCEPT !.pc = "saved"]
    /\ UNCHANGED <<graph, loaded, calls, vector_store, retrieval>>

\* The call ends before the file is opened, or after that and before the
\* dump is complete.
SaveInterrupt ==
    /\ op.name = "build_and_save_graph"
    /\ op.pc \in {"open", "dump"}
    /\ op' = [op EXCEPT !.pc = "interrupted"]
    /\ UNCHANGED <<graph, file, loaded, calls, vector_store, retrieval>>

NextSave == BuildForSave \/ SaveOpen \/ SaveDump \/ SaveInterrupt

SpecSave == InitSave /\ [][NextSave]_vars

(***************************************************************************)
(* The concurrent specification: retrieve runs on a retriever that holds   *)
(* the graph (retriever.py:197) while update_graph runs on the same graph  *)
(* object; the steps of the two interleave.  update_graph is taken loop by *)
(* loop: removal, add_chunk, build_references, compute_centrality_scores.  *)
(***************************************************************************)
UpdateRemove ==
    /\ op.name = "build_graph"
    /\ \E new_chunks \in {<<cD>>, <<cA2>>}, removed_chunk_ids \in {<<>>, <<"c3">>},
          converged \in BOOLEAN :
          /\ \A i \in 1..Len(new_chunks) :
                new_chunks[i].id \notin
                    DOMAIN RemoveChunks(graph, removed_chunk_ids, 1).chunk_metadata
          /\ op' = [name |-> "update_graph", pc |-> "add",
                    new_chunks |-> new_chunks,
                    removed_chunk_ids |-> removed_chunk_ids,
                    converged |-> converged, pre |-> graph,
                    post |-> update_graph(graph, new_chunks, removed_chunk_ids,
                                          converged).graph]
          /\ graph' = RemoveChunks(graph, removed_chunk_ids, 1)
    /\ UNCHANGED <<file, loaded, calls, vector_store, retrieval>>

UpdateAdd ==
    /\ op.name = "update_graph"
    /\ op.pc = "add"
    /\ graph' = AddChunks(graph, op.new_chunks, 1)
    /\ op' = [op EXCEPT !.pc = "references"]
    /\ UNCHANGED <<file, loaded, calls, vector_store, retrieval>>

UpdateReferences ==
    /\ op.name = "update_graph"
    /\ op.pc = "references"
    /\ LET refs == build_references(graph, op.new_chunks, CangjieCodeElementExtractor)
       IN /\ graph' = refs.graph
          /\ op' = [op EXCEPT !.pc = IF refs.err # "" THEN "raised" ELSE "centrality"]
    /\ UNCHANGED <<file, loaded, calls, vector_store, retrieval>>

UpdateCentrality ==
    /\ op.name = "update_graph"
    /\ op.pc = "centrality"
    /\ graph' = compute_centrality_scores(graph, op.converged)
    /\ op' = [op EXCEPT !.pc = "done"]
    /\ UNCHANGED <<file, loaded, calls, vector_store, retrieval>>

NextConcurrent ==
    \/ RetrieveAnalyze
    \/ RetrieveSeed
    \/ RetrieveExpand
    \/ RetrieveHydrate
    \/ RetrieveRank
    \/ UpdateRemove
    \/ UpdateAdd
    \/ UpdateReferences
    \/ UpdateCentrality

SpecConcurrent == InitRetrieve /\ [][NextConcurrent]_vars

(***************************************************************************)
(* The read specification: on a built graph and a filled index, up to      *)
(* MaxCalls reads: the four graph queries and retrieve, each with the      *)
(* graph as the call leaves it.                                            *)
(***************************************************************************)
ReadNames == {"Foo", "Bar", "Qux", "Nope"}

\* The names _graph_expand looks up: every mentioned element for strategy 2,
\* and once more in get_subgraph_for_elements when there are several.
ExpandLookups(query_analysis) ==
    SeqOf(query_analysis.code_elements)
        \o (IF Cardinality(query_analysis.code_elements) > 1
            THEN SeqOf(query_analysis.code_elements) ELSE <<>>)

InitRead ==
    /\ \E chunks \in Corpora \cup {<<cD, cB, cA, cC>>},
          parent_relationships \in ParentMaps :
          /\ graph = build_graph(chunks, parent_relationships, TRUE).graph
          /\ op = [name |-> "build_graph", chunks |-> chunks,
                   parent_relationships |-> parent_relationships,
                   err |-> build_graph(chunks, parent_relationships, TRUE).err]
          /\ vector_store = store_chunks(MilvusVectorStore(FALSE), chunks)
    /\ file = NoFile
    /\ loaded = NoGraph
    /\ calls = 0
    /\ retrieval = Idle

GetRelatedByElement ==
    /\ calls < MaxCalls
    /\ \E element_name \in ReadNames, exclude_chunk \in {"", "c2", UnknownId} :
          /\ op' = [name |-> "get_related_by_element",
                    element_name |-> element_name, exclude_chunk |-> exclude_chunk,
                    result |-> get_related_by_element(graph, element_name,
                                                      exclude_chunk)]
          /\ graph' = AfterLookups(graph, <<element_name>>)
    /\ calls' = calls + 1
    /\ UNCHANGED <<file, loaded, vector_store, retrieval>>

GetSubgraphForElements ==
    /\ calls < MaxCalls
    /\ \E element_names \in {<<>>, <<"Nope">>, <<"Foo">>, <<"Bar", "Nope">>,
                             <<"Qux", "Foo">>},
          max_depth \in 0..MaxDistance :
          /\ op' = [name |-> "get_subgraph_for_elements",
                    element_names |-> element_names, max_depth |-> max_depth,
                    result |-> get_subgraph_for_elements(graph, element_names,
                                                         max_depth)]
          /\ graph' = AfterLookups(graph, element_names)
    /\ calls' = calls + 1
    /\ UNCHANGED <<file, loaded, vector_store, retrieval>>

GetShortestPath ==
    /\ calls < MaxCalls
    /\ \E source_chunk \in ChunkIds \cup {UnknownId},
          target_chunk \in ChunkIds \cup {UnknownId} :
          op' = [name |-> "get_shortest_path", source_chunk |-> source_chunk,
                 target_chunk |-> target_chunk,
                 result |-> get_shortest_path(graph, source_chunk, target_chunk)]
    /\ calls' = calls + 1
    /\ UNCHANGED <<graph, file, loaded, vector_store, retrieval>>

\* retrieve as one call, the first one made.
Retrieve ==
    /\ op.name = "build_graph"
    /\ \E query \in Queries, config \in Configs :
          \E initial_chunks \in semantic_search(vector_store, query, config.initial_k) :
             LET query_analysis == analyze_query(query)
                 expanded_chunk_ids ==
                     _graph_expand(graph, initial_chunks, query_analysis, config)
             IN IF AfterSeed(initial_chunks) = "done"
                THEN /\ op' = [name |-> "retrieve", query |-> query,
                               config |-> config, result |-> <<>>]
                     /\ graph' = graph
                ELSE \E order \in Orders(Lookups(expanded_chunk_ids, initial_chunks)) :
                        /\ op' = [name |-> "retrieve", query |-> query,
                                  config |-> config,
                                  result |->
                                      rank_results(graph,
                                          _get_chunks_by_ids(vector_store, order,
                                                             initial_chunks),
                                          query_analysis, config)]
                        /\ graph' = AfterLookups(graph, ExpandLookups(query_analysis))
    /\ calls' = calls + 1
    /\ UNCHANGED <<file, loaded, vector_store, retrieval>>

NextRead ==
    \/ GetNeighbors
    \/ GetRelatedByElement
    \/ GetSubgraphForElements
    \/ GetShortestPath
    \/ Retrieve

SpecRead == InitRead /\ [][NextRead]_vars

(***************************************************************************)
(* The ranking specification: rank_results applied to a candidate list.    *)
(* A candidate is a ChunkResult as hydration hands it on: an id, a score   *)
(* and the code_elements its metadata carries.  The graph gives            *)
(* chunk_metadata: all four chunks, or c2 and c3 only.                     *)
(***************************************************************************)
CandidateIds == <<"c1", "c2", "c3", "c4", UnknownId>>

ElementLists == {<<>>, <<"Foo">>, <<"Bar", "Foo">>}

CandidateLists ==
    UNION {{[i \in 1..n |->
                ChunkResult(CandidateIds[i],
                            IF CandidateIds[i] = "c3" THEN cC.content ELSE <<>>,
                            sc[i], [code_elements |-> els[i]])] :
               sc \in [1..n -> Scores], els \in [1..n -> ElementLists]} :
           n \in 0..Min(MaxCandidates, Len(CandidateIds))}

RankConfigs ==
    {[RetrievalConfig EXCEPT !.max_total_chunks = m] : m \in 0..(MaxCandidates - 1)}
        \cup {RetrievalConfig, [RetrievalConfig EXCEPT !.rerank_by_graph = FALSE]}

RankGraphs ==
    {build_graph(<<cD, cB, cA, cC>>, <<>>, TRUE).graph,
     build_graph(<<cB, cC>>, <<>>, TRUE).graph}

\* "example Foo": the query names the element Foo.
RankQuery == <<Tok("word", "example", ""), Tok("call", "Foo", "")>>

InitRank ==
    /\ graph \in RankGraphs
    /\ \E chunks \in CandidateLists, config \in RankConfigs :
          op = [name |-> "input", chunks |-> chunks, config |-> config,
                query_analysis |-> analyze_query(RankQuery)]
    /\ file = NoFile
    /\ loaded = NoGraph
    /\ calls = 0
    /\ vector_store = MilvusVectorStore(FALSE)
    /\ retrieval = Idle

\* scored is the list after the sort, window the list the diversity filter
\* is given, greedy what its first loop accepted (empty when the filter is
\* not applied).
RankResults ==
    /\ op.name = "input"
    /\ LET scored ==
               SortByScore(<<>>,
                   [i \in 1..Len(op.chunks) |->
                       [op.chunks[i] EXCEPT !.score =
                           _calculate_combined_score(graph, op.chunks[i],
                               op.query_analysis, op.config)]], 1)
           window == SubSeq(scored, 1,
                            Min(op.config.max_total_chunks * 2, Len(scored)))
           filtering == /\ op.config.max_total_chunks < Len(scored)
                        /\ Len(window) > op.config.max_total_chunks
       IN op' = [name |-> "rank_results", chunks |-> op.chunks,
                 config |-> op.config, query_analysis |-> op.query_analysis,
                 scored |-> scored,
                 filtered |-> filtering,
                 window |-> IF filtering THEN window ELSE <<>>,
                 greedy |-> IF filtering
                            THEN DiverseLoop(graph, window, <<window[1]>>,
                                             op.config.max_total_chunks, 2)
                            ELSE <<>>,
                 result |-> rank_results(graph, op.chunks, op.query_analysis,
                                         op.config)]
    /\ UNCHANGED <<graph, file, loaded, calls>>
    /\ UNCHANGED <<vector_store, retrieval>>

NextRank == RankResults

SpecRank == InitRank /\ [][NextRank]_vars

(***************************************************************************)
(* The API-level specification: any sequence of at most MaxCalls calls of  *)
(* add_chunk, add_reference_edge, build_references,                        *)
(* _add_parent_relationships and update_graph on one CodeGraph.            *)
(***************************************************************************)
ApiChunkLists == ChunkLists(1) \cup {<<cA, cB>>, <<cD, cB>>}

ApiAddChunk ==
    /\ calls < MaxCalls
    /\ \E chunk \in Universe :
          /\ graph' = add_chunk(graph, chunk, extract_elements(chunk))
          /\ op' = [name |-> "add_chunk", chunk |-> chunk]
    /\ calls' = calls + 1
    /\ UNCHANGED <<file, loaded>>
    /\ UNCHANGED <<vector_store, retrieval>>

ApiAddReferenceEdge ==
    /\ calls < MaxCalls
    /\ \E source_chunk \in {"c1", "c2"}, target_chunk \in {"c1", "c2", "c3"} :
          /\ graph' = add_reference_edge(graph, source_chunk, target_chunk,
                                         "Foo", 50, "calls")
          /\ op' = [name |-> "add_reference_edge", source_chunk |-> source_chunk,
                    target_chunk |-> target_chunk]
    /\ calls' = calls + 1
    /\ UNCHANGED <<file, loaded>>
    /\ UNCHANGED <<vector_store, retrieval>>

ApiBuildReferences ==
    /\ calls < MaxCalls
    /\ \E chunks \in ApiChunkLists :
          LET r == build_references(graph, chunks, CangjieCodeElementExtractor)
          IN /\ graph' = r.graph
             /\ op' = [name |-> "build_references", chunks |-> chunks, err |-> r.err]
    /\ calls' = calls + 1
    /\ UNCHANGED <<file, loaded>>
    /\ UNCHANGED <<vector_store, retrieval>>

ApiAddParentRelationships ==
    /\ calls < MaxCalls
    /\ \E parent_relationships \in ParentMaps \ {<<>>} :
          /\ graph' = _add_parent_relationships(graph, parent_relationships)
          /\ op' = [name |-> "_add_parent_relationships",
                    parent_relationships |-> parent_relationships]
    /\ calls' = calls + 1
    /\ UNCHANGED <<file, loaded>>
    /\ UNCHANGED <<vector_store, retrieval>>

ApiUpdateGraph ==
    /\ calls < MaxCalls
    /\ \E new_chunks \in ApiChunkLists,
          removed_chunk_ids \in {<<>>, <<"c1">>, <<"c2">>},
          converged \in BOOLEAN :
          LET r == update_graph(graph, new_chunks, removed_chunk_ids, converged)
          IN /\ graph' = r.graph
             /\ op' = [name |-> "update_graph", new_chunks |-> new_chunks,
                       removed_chunk_ids |-> removed_chunk_ids,
                       pre |-> graph, err |-> r.err]
    /\ calls' = calls + 1
    /\ UNCHANGED <<file, loaded>>
    /\ UNCHANGED <<vector_store, retrieval>>

NextApi ==
    \/ ApiAddChunk
    \/ ApiAddReferenceEdge
    \/ ApiBuildReferences
    \/ ApiAddParentRelationships
    \/ ApiUpdateGraph

SpecApi == Init /\ [][NextApi]_vars

(***************************************************************************)
(* The edge-weight specification: build_references on a source chunk       *)
(* holding one reference, of any kind and confidence, to an element the    *)
(* target chunk defines, for every placement of the two chunks.            *)
(***************************************************************************)
Confidences == 0..10

WeightSources == {ChunkRec("c1", "a.md", line, <<>>) : line \in {0, 100}}

WeightTargets ==
    {ChunkRec("c2", path, line, <<>>) :
        path \in {"a.md", "b.md"}, line \in {50, 51, 100}}

InitWeight ==
    /\ graph = CodeGraph
    /\ \E source \in WeightSources, target \in WeightTargets,
          kind \in ReferenceType, confidence \in Confidences :
          op = [name |-> "input", source |-> source, target |-> target,
                reference |-> Ref("Foo", kind, confidence)]
    /\ file = NoFile
    /\ loaded = NoGraph
    /\ calls = 0
    /\ vector_store = MilvusVectorStore(FALSE)
    /\ retrieval = Idle

WeighEdge ==
    /\ op.name = "input"
    /\ LET registered ==
               add_chunk(add_chunk(CodeGraph, op.source, <<>>), op.target,
                         <<[name |-> "Foo", element_type |-> "function"]>>)
           extractor == (op.source :> <<op.reference>>) @@ (op.target :> <<>>)
       IN graph' = build_references(registered, <<op.source, op.target>>,
                                    extractor).graph
    /\ op' = [op EXCEPT !.name = "build_references"]
    /\ UNCHANGED <<file, loaded, calls>>
    /\ UNCHANGED <<vector_store, retrieval>>

NextWeight == WeighEdge

SpecWeight == InitWeight /\ [][NextWeight]_vars

(***************************************************************************)
(* chunker.py: MarkdownChunker.  A document is a sequence of lines.  A     *)
(* line is a header line "# title", a text line or an empty line, and      *)
(* holds its words, each with its place in the document and its length in  *)
(* characters.  The words of a line are separated by one space and a line  *)
(* has no space at its ends.  The uuid4 id of a chunk and                  *)
(* metadata.code_elements are not carried; no line holds code, so          *)
(* _determine_chunk_type answers TEXT.                                     *)
(***************************************************************************)
MaxLines == 4

MaxWords == 7

Max(a, b) == IF a >= b THEN a ELSE b

\* MarkdownChunker(max_chunk_size, min_chunk_size, overlap_size)
Chunkers ==
    {[max_chunk_size |-> 20, min_chunk_size |-> 5, overlap_size |-> 10],
     [max_chunk_size |-> 20, min_chunk_size |-> 5, overlap_size |-> 0],
     [max_chunk_size |-> 30, min_chunk_size |-> 12, overlap_size |-> 25]}

Word(n, j, l) == [line |-> n, i |-> j, len |-> l]

\* "# title": header_pattern matches, group(2).strip() is the title.
HeaderLine(n, title) ==
    [k |-> "header", title |-> title, words |-> <<Word(n, 1, 1), Word(n, 2, 5)>>]

TextLine(n, lens) ==
    [k |-> "text", title |-> "", words |-> [j \in 1..Len(lens) |-> Word(n, j, lens[j])]]

EmptyLine == [k |-> "empty", title |-> "", words |-> <<>>]

\* The lines of the documents with headers; their text line has 27
\* characters in 7 words.
LineKinds == {"intro", "usage", "text", "empty"}

LineOf(kind, n) ==
    CASE kind = "intro" -> HeaderLine(n, "Intro")
      [] kind = "usage" -> HeaderLine(n, "Usage")
      [] kind = "text" -> TextLine(n, <<3, 3, 3, 3, 3, 3, 3>>)
      [] OTHER -> EmptyLine

HeaderDocuments ==
    UNION {{[n \in 1..m |-> LineOf(kinds[n], n)] : kinds \in [1..m -> LineKinds]} :
              m \in 1..MaxLines}

\* One-line documents, every distribution of short, middle and long words.
WordLens == {3, 6, 12}

WordDocuments ==
    UNION {{<<TextLine(1, lens)>> : lens \in [1..m -> WordLens]} : m \in 1..MaxWords}

RECURSIVE SumLen(_)
SumLen(words) == IF words = <<>> THEN 0 ELSE words[1].len + SumLen(Tail(words))

LineLen(line) ==
    IF line.words = <<>> THEN 0 ELSE SumLen(line.words) + Len(line.words) - 1

\* len(content): the lines and the newlines between them.
RECURSIVE Chars(_)
Chars(content) ==
    IF content = <<>> THEN 0
    ELSE LineLen(content[1])
             + (IF Len(content) > 1 THEN 1 + Chars(Tail(content)) ELSE 0)

\* content.strip(): the empty lines at both ends go.
strip(content) ==
    LET full == {i \in 1..Len(content) : content[i].words # <<>>}
    IN IF full = {} THEN <<>>
       ELSE SubSeq(content, CHOOSE i \in full : \A j \in full : i <= j,
                            CHOOSE i \in full : \A j \in full : i >= j)

\* content.split()
RECURSIVE split(_)
split(content) ==
    IF content = <<>> THEN <<>> ELSE content[1].words \o split(Tail(content))

\* ' '.join(words)
join(words) == <<[k |-> "text", title |-> "", words |-> words]>>

\* section_title is <<>> for None and <<title>> for a title.
_create_chunk(content, file_path, start_line, end_line, section_title) ==
    [content |-> strip(content), file_path |-> file_path,
     start_line |-> start_line, end_line |-> end_line, chunk_type |-> "TEXT",
     section_title |-> section_title]

\* for i, line in enumerate(lines): n is i + 1.
RECURSIVE HeaderLoop(_, _, _, _)
HeaderLoop(lines, file_path, n, st) ==
    IF n > Len(lines) THEN st
    ELSE IF lines[n].k = "header" /\ st.current_section # <<>>
         THEN HeaderLoop(lines, file_path, n + 1,
                  [chunks |->
                       IF strip(st.current_section) # <<>>
                       THEN Append(st.chunks,
                                   _create_chunk(st.current_section, file_path,
                                                 st.start_line, n - 1,
                                                 st.current_header))
                       ELSE st.chunks,
                   current_section |-> <<lines[n]>>,
                   current_header |-> <<lines[n].title>>,
                   start_line |-> n])
         ELSE HeaderLoop(lines, file_path, n + 1,
                  [st EXCEPT !.current_section = Append(@, lines[n])])

_split_by_headers(content, file_path) ==
    LET st == HeaderLoop(content, file_path, 1,
                         [chunks |-> <<>>, current_section |-> <<>>,
                          current_header |-> <<>>, start_line |-> 1])
        chunks == IF st.current_section # <<>> /\ strip(st.current_section) # <<>>
                  THEN Append(st.chunks,
                              _create_chunk(st.current_section, file_path,
                                            st.start_line, Len(content),
                                            st.current_header))
                  ELSE st.chunks
    IN IF chunks = <<>>
       THEN <<_create_chunk(content, file_path, 1, Len(content), <<>>)>>
       ELSE chunks

\* s[-n:]; -0 is 0, so for n = 0 the slice is the whole list.
SliceFromEnd(s, n) == IF n = 0 THEN s ELSE SubSeq(s, Len(s) - n + 1, Len(s))

RECURSIVE SizeLoop(_, _, _, _, _)
SizeLoop(chunker, chunk, words, i, st) ==
    IF i > Len(words) THEN st
    ELSE LET current_chunk == Append(st.current_chunk, words[i])
             current_size == st.current_size + words[i].len + 1
             overlap_words == Max(0, Min(chunker.overlap_size \div 10,
                                         Len(current_chunk) \div 4))
             kept == SliceFromEnd(current_chunk, overlap_words)
         IN IF current_size >= chunker.max_chunk_size
            THEN SizeLoop(chunker, chunk, words, i + 1,
                     [chunks |->
                          Append(st.chunks,
                                 _create_chunk(join(current_chunk), chunk.file_path,
                                               chunk.start_line, chunk.end_line,
                                               chunk.section_title)),
                      current_chunk |-> kept,
                      current_size |-> SumLen(kept) + Len(kept)])
            ELSE SizeLoop(chunker, chunk, words, i + 1,
                     [st EXCEPT !.current_chunk = current_chunk,
                                !.current_size = current_size])

_split_by_size(chunker, chunk) ==
    LET words == split(chunk.content)
        st == SizeLoop(chunker, chunk, words, 1,
                       [chunks |-> <<>>, current_chunk |-> <<>>, current_size |-> 0])
        chunks == IF /\ st.current_chunk # <<>>
                     /\ Chars(strip(join(st.current_chunk))) >= chunker.min_chunk_size
                  THEN Append(st.chunks,
                              _create_chunk(join(st.current_chunk), chunk.file_path,
                                            chunk.start_line, chunk.end_line,
                                            chunk.section_title))
                  ELSE st.chunks
    IN IF Len(words) <= chunker.max_chunk_size \div 10 THEN <<chunk>>
       ELSE IF chunks # <<>> THEN chunks ELSE <<chunk>>

(***************************************************************************)
(* The chunking specification: chunk_content on one document, one stage    *)
(* per step.  op.pieces keeps, for every header chunk, what the loop added *)
(* to chunks for it.                                                       *)
(***************************************************************************)
InitChunk ==
    /\ \E content \in HeaderDocuments \cup WordDocuments, chunker \in Chunkers :
          op = [name |-> "chunk_content", pc |-> "headers", content |-> content,
                file_path |-> "a.md", chunker |-> chunker, header_chunks |-> <<>>,
                pieces |-> <<>>, chunks |-> <<>>]
    /\ graph = CodeGraph
    /\ file = NoFile
    /\ loaded = NoGraph
    /\ calls = 0
    /\ vector_store = MilvusVectorStore(FALSE)
    /\ retrieval = Idle

\* header_chunks = self._split_by_headers(content, file_path)
ChunkSplitByHeaders ==
    /\ op.name = "chunk_content"
    /\ op.pc = "headers"
    /\ op' = [op EXCEPT !.pc = "size",
                        !.header_chunks = _split_by_headers(op.content, op.file_path)]
    /\ UNCHANGED <<graph, file, loaded, calls, vector_store, retrieval>>

\* for chunk in header_chunks: one pass of the loop.
ChunkSplitBySize ==
    /\ op.name = "chunk_content"
    /\ op.pc = "size"
    /\ Len(op.pieces) < Len(op.header_chunks)
    /\ LET chunk == op.header_chunks[Len(op.pieces) + 1]
           added == IF Chars(chunk.content) > op.chunker.max_chunk_size
                    THEN _split_by_size(op.chunker, chunk)
                    ELSE <<chunk>>
       IN op' = [op EXCEPT !.pieces = Append(@, added), !.chunks = @ \o added]
    /\ UNCHANGED <<graph, file, loaded, calls, vector_store, retrieval>>

\* chunks = [c for c in chunks if len(c.content.strip()) >= self.min_chunk_size]
ChunkFilter ==
    /\ op.name = "chunk_content"
    /\ op.pc = "size"
    /\ Len(op.pieces) = Len(op.header_chunks)
    /\ op' = [op EXCEPT
          !.pc = "done",
          !.chunks = SelectSeq(@, LAMBDA c :
                         Chars(strip(c.content)) >= op.chunker.min_chunk_size)]
    /\ UNCHANGED <<graph, file, loaded, calls, vector_store, retrieval>>

NextChunk ==
    \/ ChunkSplitByHeaders
    \/ ChunkSplitBySize
    \/ ChunkFilter

SpecChunk == InitChunk /\ [][NextChunk]_vars

(***************************************************************************)
(* Claims.                                                                 *)
(***************************************************************************)

\* C1: no edge of a reachable graph has its source equal to its target, and
\* add_reference_edge called with source = target leaves the graph unchanged.
C1_NoSelfLoops ==
    /\ [](\A e \in DOMAIN graph.edges : e[1] # e[2])
    /\ [][(op'.name = "add_reference_edge"
             /\ op'.source_chunk = op'.target_chunk) => graph' = graph]_vars

C1_Witness ==
    \/ /\ op.name = "add_reference_edge"
       /\ op.source_chunk = op.target_chunk
       /\ DOMAIN graph.edges # {}
    \/ /\ op.name = "_add_parent_relationships"
       /\ \E i \in 1..Len(op.parent_relationships) :
             op.parent_relationships[i][1] \in Range(op.parent_relationships[i][2])
       /\ DOMAIN graph.edges # {}

\* C2: every edge build_references creates has a weight between 0 and 1
\* (0 and 100 hundredths), for every kind, placement and confidence.
C2_WeightInUnitInterval ==
    op.name = "build_references" =>
        \A e \in DOMAIN graph.edges :
            graph.edges[e].weight >= 0 /\ graph.edges[e].weight <= 100

C2_Witness ==
    /\ op.name = "build_references"
    /\ op.reference.confidence = 10
    /\ op.source.file_path = op.target.file_path
    /\ <<"c1", "c2">> \in DOMAIN graph.edges
    /\ graph.edges[<<"c1", "c2">>].weight = 100

\* The base and the bonuses of the weight rule, in tenths.
RuleSum(source, target, reference) ==
    (IF reference.reference_type = "calls" THEN 9
     ELSE IF reference.reference_type = "type_reference" THEN 8 ELSE 6)
    + (IF source.file_path = target.file_path THEN 2 ELSE 0)
    + (IF source.file_path = target.file_path
          /\ source.start_line - target.start_line < 50
          /\ target.start_line - source.start_line < 50 THEN 1 ELSE 0)

\* C3 as stated: weight = min(1.0, base + bonuses) * confidence.
C3_AsStated ==
    op.name = "build_references" =>
        /\ <<"c1", "c2">> \in DOMAIN graph.edges
        /\ graph.edges[<<"c1", "c2">>].weight =
               Min(10, RuleSum(op.source, op.target, op.reference))
                   * op.reference.confidence

\* C3 amended: weight = min(1.0, (base + bonuses) * confidence): the
\* confidence is applied first and the product is capped.
C3_CapAfterConfidence ==
    op.name = "build_references" =>
        /\ <<"c1", "c2">> \in DOMAIN graph.edges
        /\ graph.edges[<<"c1", "c2">>].weight =
               Min(100, RuleSum(op.source, op.target, op.reference)
                            * op.reference.confidence)

C3_Witness ==
    /\ op.name = "build_references"
    /\ RuleSum(op.source, op.target, op.reference) = 12
    /\ op.reference.confidence = 8
    /\ graph.edges[<<"c1", "c2">>].weight = 96

\* The references of source whose target element target defines.
HitsOf(source, target) ==
    {r \in Range(extract_references(source)) :
        \E i \in 1..Len(extract_elements(target)) :
            extract_elements(target)[i].name = r.target_element}

\* The worked example's case: the references from source to elements of
\* target are receiver-qualified calls (CALLS, confidence 0.8), and the two
\* chunks are in one file with start lines less than 50 apart.
WorkedExampleCase(source, target) ==
    /\ source.id # target.id
    /\ HitsOf(source, target) # {}
    /\ \A r \in HitsOf(source, target) :
          r.reference_type = "calls" /\ r.confidence = 8
    /\ source.file_path = target.file_path
    /\ Abs(source.start_line - target.start_line) < 50

\* C4: a CALLS reference with confidence 0.8 from chunk A to an element that
\* chunk B defines, A and B in one file with start lines less than 50 apart,
\* gives the edge A -> B the weight 0.96, and B is in get_neighbors(A, 1, 0.3).
C4_WorkedExample ==
    (op.name = "build_graph" /\ op.parent_relationships = <<>>) =>
        \A i, j \in 1..Len(op.chunks) :
            WorkedExampleCase(op.chunks[i], op.chunks[j]) =>
                /\ <<op.chunks[i].id, op.chunks[j].id>> \in DOMAIN graph.edges
                /\ graph.edges[<<op.chunks[i].id, op.chunks[j].id>>].weight = 96
                /\ graph.edges[<<op.chunks[i].id, op.chunks[j].id>>].reference_type
                       = "calls"
                /\ op.chunks[j].id
                       \in get_neighbors(graph, op.chunks[i].id, 1, 30)

C4_Witness ==
    /\ op.name = "build_graph"
    /\ op.parent_relationships = <<>>
    /\ \E i, j \in 1..Len(op.chunks) :
          /\ op.chunks[i] = cA
          /\ op.chunks[j] = cB
          /\ WorkedExampleCase(cA, cB)
          /\ graph.edges[<<"c1", "c2">>].weight = 96
          /\ "c2" \in get_neighbors(graph, "c1", 1, 30)

\* One hop: an edge between a and b, in either direction, of weight >= w.
Linked(g, a, b, w) ==
    \/ <<a, b>> \in DOMAIN g.edges /\ g.edges[<<a, b>>].weight >= w
    \/ <<b, a>> \in DOMAIN g.edges /\ g.edges[<<b, a>>].weight >= w

\* y is reached from x in exactly k hops.
RECURSIVE ExactHops(_, _, _, _, _)
ExactHops(g, x, y, k, w) ==
    IF k = 0 THEN x = y
    ELSE \E z \in g.nodes : Linked(g, x, z, w) /\ ExactHops(g, z, y, k - 1, w)

\* C5: for y other than x, y is in get_neighbors(x, d, w) exactly when y is
\* reached from x in between 1 and d hops over edges of weight >= w taken in
\* either direction; the result is empty for d = 0 and for x not in the graph.
C5_NeighborsAreReachable ==
    op.name = "get_neighbors" =>
        /\ \A y \in (graph.nodes \cup ChunkIds \cup {UnknownId}) \ {op.chunk_id} :
              y \in op.result <=>
                  /\ op.chunk_id \in graph.nodes
                  /\ \E k \in 1..op.max_distance :
                        ExactHops(graph, op.chunk_id, y, k, op.min_weight)
        /\ op.max_distance = 0 => op.result = {}
        /\ op.chunk_id \notin graph.nodes => op.result = {}

\* A cycle c1 -> c2 -> c3 -> c1; c3 is one hop from c1 over an incoming edge.
C5_Witness ==
    /\ op.name = "get_neighbors"
    /\ {<<"c1", "c2">>, <<"c2", "c3">>, <<"c3", "c1">>} \subseteq DOMAIN graph.edges
    /\ <<"c1", "c3">> \notin DOMAIN graph.edges
    /\ op.chunk_id = "c1"
    /\ op.max_distance = 1
    /\ op.min_weight = 30
    /\ "c3" \in op.result

\* C6: get_neighbors(x, d, w) never contains the seed x.
C6_SeedExcluded ==
    op.name = "get_neighbors" => op.chunk_id \notin op.result

\* The element names asked for: those of the corpus and one it lacks.
ElementNames == {"Foo", "Bar", "Baz", "Qux", "Nope"}

\* The loaded graph has the nodes, edges with attributes, element index and
\* centrality scores of the saved one.
SameStructure(g, h) ==
    /\ h.nodes = g.nodes
    /\ h.edges = g.edges
    /\ h.element_index = g.element_index
    /\ DOMAIN h.chunk_metadata = DOMAIN g.chunk_metadata
    /\ \A id \in DOMAIN g.chunk_metadata :
          h.chunk_metadata[id].centrality_score
              = g.chunk_metadata[id].centrality_score

\* The read operations answer alike on both graphs.
SameAnswers(g, h) ==
    /\ \A x \in ChunkIds \cup {UnknownId}, d \in 0..MaxDistance, w \in MinWeights :
          get_neighbors(h, x, d, w) = get_neighbors(g, x, d, w)
    /\ \A n \in ElementNames, x \in ChunkIds \cup {""} :
          get_related_by_element(h, n, x) = get_related_by_element(g, n, x)
    /\ \A n \in ElementNames, d \in 0..MaxDistance :
          get_subgraph_for_elements(h, <<n>>, d)
              = get_subgraph_for_elements(g, <<n>>, d)
    /\ \A x, y \in ChunkIds \cup {UnknownId} :
          get_shortest_path(h, x, y) = get_shortest_path(g, x, y)

RoundTripStructure ==
    op.name = "load_from_file" => SameStructure(graph, loaded.graph)

\* C7: the graph read back from the artifact save_to_file wrote has the same
\* nodes, edges with attributes, element index and centrality scores as the
\* saved graph, and get_neighbors, get_related_by_element,
\* get_subgraph_for_elements and get_shortest_path answer alike on both.
C7_RoundTrip ==
    op.name = "load_from_file" =>
        SameStructure(graph, loaded.graph) /\ SameAnswers(graph, loaded.graph)

\* The removed ids that were nodes of the graph before the call.
RemovedNodes == Range(op.removed_chunk_ids) \cap op.pre.nodes

NewIds == {op.new_chunks[i].id : i \in 1..Len(op.new_chunks)}

\* r is nowhere in graph g.
Purged(g, r) ==
    /\ r \notin g.nodes
    /\ \A e \in DOMAIN g.edges : e[1] # r /\ e[2] # r
    /\ r \notin DOMAIN g.chunk_elements
    /\ r \notin DOMAIN g.chunk_metadata
    /\ \A n \in DOMAIN g.element_index : r \notin Range(g.element_index[n])

\* C8: after update_graph, a removed id that was a node and is not re-added
\* is not a node, ends no edge, is no key of chunk_elements or chunk_metadata
\* and is in no list of the element index; the removal step leaves the nodes,
\* edges, metadata and index entries of the other chunks as they were.
C8_RemovalPurges ==
    op.name = "update_graph" =>
        /\ \A r \in RemovedNodes \ NewIds : Purged(graph, r)
        /\ \A r \in RemovedNodes : Purged(op.mid, r)
        /\ op.mid.nodes = op.pre.nodes \ RemovedNodes
        /\ \A e \in DOMAIN op.pre.edges :
              (e[1] \notin RemovedNodes /\ e[2] \notin RemovedNodes) =>
                  e \in DOMAIN op.mid.edges /\ op.mid.edges[e] = op.pre.edges[e]
        /\ DOMAIN op.mid.edges \subseteq DOMAIN op.pre.edges
        /\ \A k \in DOMAIN op.pre.chunk_metadata \ RemovedNodes :
              /\ k \in DOMAIN op.mid.chunk_metadata
              /\ op.mid.chunk_metadata[k] = op.pre.chunk_metadata[k]
              /\ op.mid.chunk_elements[k] = op.pre.chunk_elements[k]
              /\ op.mid.node_attr[k] = op.pre.node_attr[k]
        /\ DOMAIN op.mid.element_index = DOMAIN op.pre.element_index
        /\ \A n \in DOMAIN op.pre.element_index :
              op.mid.element_index[n]
                  = SelectSeq(op.pre.element_index[n],
                              LAMBDA cid : cid \notin RemovedNodes)

\* c2 and c4 both define Foo and c4 calls c2's; c2 is removed.
C8_Witness ==
    /\ op.name = "update_graph"
    /\ op.removed_chunk_ids = <<"c2">>
    /\ "c2" \notin NewIds
    /\ "Foo" \in DOMAIN op.pre.element_index
    /\ op.pre.element_index["Foo"] = <<"c2", "c4">>
    /\ <<"c4", "c2">> \in DOMAIN op.pre.edges
    /\ graph.element_index["Foo"] = <<"c4">>
    /\ "c2" \notin graph.nodes
    /\ "c4" \in graph.nodes

\* C9: update_graph with a non-empty new_chunks completes without error,
\* registers every new chunk with its elements, creates edges only between
\* pairs of new chunks, and recomputes the centrality of all chunks.
C9_UpdateCompletes ==
    (op.name = "update_graph" /\ op.new_chunks # <<>>) =>
        /\ op.err = ""
        /\ \A i \in 1..Len(op.new_chunks) :
              /\ op.new_chunks[i].id \in graph.nodes
              /\ op.new_chunks[i].id \in DOMAIN graph.chunk_metadata
              /\ op.new_chunks[i].id \in DOMAIN graph.chunk_elements
              /\ graph.chunk_elements[op.new_chunks[i].id]
                     = [k \in 1..Len(extract_elements(op.new_chunks[i])) |->
                           extract_elements(op.new_chunks[i])[k].name]
        /\ \A e \in DOMAIN graph.edges :
              \/ e[1] \in NewIds /\ e[2] \in NewIds
              \/ e \in DOMAIN op.mid.edges /\ graph.edges[e] = op.mid.edges[e]
        /\ \E converged \in BOOLEAN :
              compute_centrality_scores(graph, converged).chunk_metadata
                  = graph.chunk_metadata

\* The stages of a full run, in order.
AllStages ==
    <<"query_analysis", "seed_search", "graph_expansion", "hydration", "ranking">>

\* C10: with no seeds retrieve returns the empty list after query analysis
\* and seed search only, with no graph expansion, no get_chunk_by_id call and
\* no ranking; otherwise the five stages run once each, in order, and the
\* value returned is the ranker's output.
C10_StagesInOrder ==
    /\ retrieval.stages = SubSeq(AllStages, 1, Len(retrieval.stages))
    /\ retrieval.pc = "done" =>
          IF retrieval.initial_chunks = <<>>
          THEN /\ retrieval.result = <<>>
               /\ retrieval.stages = SubSeq(AllStages, 1, 2)
               /\ retrieval.lookups = <<>>
               /\ retrieval.expanded_chunk_ids = {}
               /\ retrieval.all_chunks = <<>>
          ELSE /\ retrieval.stages = AllStages
               /\ retrieval.result =
                      rank_results(graph, retrieval.all_chunks,
                                   retrieval.query_analysis, retrieval.config)

\* A run with seeds that looked a neighbour up and returned a ranked list.
C10_Witness ==
    /\ retrieval.pc = "done"
    /\ retrieval.initial_chunks # <<>>
    /\ retrieval.lookups # <<>>
    /\ Len(retrieval.result) > Len(retrieval.initial_chunks)
    /\ retrieval.stages = AllStages

\* A run with no seeds over a graph that is not empty.
C10_WitnessNoSeeds ==
    /\ retrieval.pc = "done"
    /\ retrieval.initial_chunks = <<>>
    /\ graph.nodes # {}
    /\ retrieval.query_analysis.code_elements # {}
    /\ retrieval.result = <<>>

SeedIds == {retrieval.initial_chunks[i].id : i \in 1..Len(retrieval.initial_chunks)}

\* C11: after hydration every expansion-only id that store_chunks stored is
\* in the candidate list with the stored chunk's content, with a Milvus
\* client and without; the seeds keep their result objects and are not
\* looked up.
C11_HydrationResolves ==
    retrieval.pc \in {"rank", "done"} =>
        /\ \A id \in retrieval.expanded_chunk_ids \ SeedIds :
              \A c \in Searchable(vector_store) :
                  c.id = id =>
                      \E i \in 1..Len(retrieval.all_chunks) :
                          /\ retrieval.all_chunks[i].id = id
                          /\ retrieval.all_chunks[i].content = c.content
        /\ SubSeq(retrieval.all_chunks, 1, Len(retrieval.initial_chunks))
              = retrieval.initial_chunks
        /\ Range(retrieval.lookups) \cap SeedIds = {}

\* The part of C11 that holds without a Milvus client.
C11_FallbackOnly ==
    ~vector_store.client => C11_HydrationResolves

\* C12: the list rank_results returns is in non-increasing order of score.
C12_ResultSorted ==
    op.name = "rank_results" =>
        \A i, j \in 1..Len(op.result) :
            i < j => op.result[i].score >= op.result[j].score

\* The part of C12 that holds: the list is sorted when the filter's
\* backfill loop added nothing.
C12_SortedWithoutBackfill ==
    (op.name = "rank_results"
        /\ (op.filtered => Len(op.greedy) >= op.config.max_total_chunks)) =>
        \A i, j \in 1..Len(op.result) :
            i < j => op.result[i].score >= op.result[j].score

\* Whether the Jaccard overlap of two element sets is at most 0.7, the
\* overlap of two empty sets being 0.
OverlapAtMost70(a, b) ==
    10 * Cardinality(a \cap b) <= 7 * Cardinality(a \cup b)

\* C13: any two candidates the filter's first loop accepted have a Jaccard
\* overlap of their code-element sets of at most 0.7, whether or not their
\* ids are in graph.chunk_metadata.
C13_AcceptedPairsDiverse ==
    (op.name = "rank_results" /\ op.filtered) =>
        \A i, j \in 1..Len(op.greedy) :
            i < j => OverlapAtMost70(Range(op.greedy[i].metadata.code_elements),
                                     Range(op.greedy[j].metadata.code_elements))

\* The part of C13 that holds: accepted pairs whose ids are both in
\* graph.chunk_metadata.
C13_KnownPairsDiverse ==
    (op.name = "rank_results" /\ op.filtered) =>
        \A i, j \in 1..Len(op.greedy) :
            (i < j /\ op.greedy[i].id \in DOMAIN graph.chunk_metadata
                   /\ op.greedy[j].id \in DOMAIN graph.chunk_metadata) =>
                OverlapAtMost70(Range(op.greedy[i].metadata.code_elements),
                                Range(op.greedy[j].metadata.code_elements))

\* The candidates of the filter's window that its first loop did not accept,
\* in the window's order.
Unaccepted ==
    SelectSeq(op.window, LAMBDA c : c \notin Range(op.greedy))

\* C14: with max_total_chunks >= 1 (the candidates' ids are pairwise
\* distinct) rank_results returns min(max_total_chunks, n) results with no
\* id twice, the first of them with the highest combined score; where the
\* first loop of the filter accepted fewer than max_total_chunks, the other
\* slots hold the window's unaccepted candidates in score order.
C14_CountAndBackfill ==
    (op.name = "rank_results" /\ op.config.max_total_chunks >= 1) =>
        /\ Len(op.result) = Min(op.config.max_total_chunks, Len(op.chunks))
        /\ \A i, j \in 1..Len(op.result) :
               i # j => op.result[i].id # op.result[j].id
        /\ \A i \in 1..Len(op.scored) :
               op.result[1].score >= op.scored[i].score
        /\ (op.filtered /\ Len(op.greedy) < op.config.max_total_chunks) =>
               op.result = op.greedy \o
                   SubSeq(Unaccepted, 1,
                          op.config.max_total_chunks - Len(op.greedy))

\* Two slots are backfilled out of three unaccepted candidates.
C14_Witness ==
    /\ op.name = "rank_results"
    /\ op.filtered
    /\ Len(op.greedy) + 2 = op.config.max_total_chunks
    /\ Len(Unaccepted) = 3
    /\ Len(op.result) = op.config.max_total_chunks

RECURSIVE DirectedHops(_, _, _, _)
DirectedHops(g, a, b, k) ==
    IF k = 0 THEN a = b
    ELSE \E z \in g.nodes :
            <<a, z>> \in DOMAIN g.edges /\ DirectedHops(g, z, b, k - 1)

\* C18: get_shortest_path(a, b) is empty when a or b is not a node or no
\* directed path leads from a to b (a path from b to a does not count);
\* otherwise it is a node sequence from a to b along directed edges, with
\* the least number of hops.
C18_ShortestDirectedPath ==
    op.name = "get_shortest_path" =>
        LET a == op.source_chunk
            b == op.target_chunk
            r == op.result
            hops == {k \in 0..Cardinality(graph.nodes) :
                        DirectedHops(graph, a, b, k)}
        IN IF a \notin graph.nodes \/ b \notin graph.nodes \/ hops = {}
           THEN r = <<>>
           ELSE /\ r # <<>>
                /\ r[1] = a
                /\ r[Len(r)] = b
                /\ \A i \in 1..(Len(r) - 1) : <<r[i], r[i + 1]>> \in DOMAIN graph.edges
                /\ \A k \in hops : Len(r) - 1 <= k

\* A path of two hops was returned.
C18_Witness ==
    /\ op.name = "get_shortest_path"
    /\ Len(op.result) = 3

\* No path from a to b although one leads from b to a.
C18_WitnessOneWay ==
    /\ op.name = "get_shortest_path"
    /\ op.result = <<>>
    /\ op.source_chunk \in graph.nodes
    /\ get_shortest_path(graph, op.target_chunk, op.source_chunk) # <<>>

\* C16: a query that runs while update_graph runs reads the graph only as it
\* was before the update or as the update returns it, never a graph in
\* between.  The query reads the graph in its expansion and ranking stages.
C16_QuerySeesSnapshot ==
    [][(/\ op.name = "update_graph"
        /\ retrieval.pc \in {"expand", "rank"}
        /\ retrieval'.pc # retrieval.pc) => graph \in {op.pre, op.post}]_vars

\* Taken step by step the update arrives at the graph update_graph returns.
C16_UpdateStepsAgree ==
    (op.name = "update_graph" /\ op.pc \in {"done", "raised"}) => graph = op.post

\* C17: when build_and_save_graph has ended, by returning, by a build that
\* raised or by an interruption, the file at the final path is the file that
\* was there before (or there is none), or it is the complete snapshot of
\* the graph build_graph returned.
C17_SnapshotNeverPartial ==
    (op.name = "build_and_save_graph"
        /\ op.pc \in {"raised", "interrupted", "saved"}) =>
        \/ file = op.previous
        \/ /\ file.exists
           /\ op.err = ""
           /\ file.data = save_to_file(graph)

\* The part of C17 that holds: the save is reached only by a build that
\* returned, and a call that was not interrupted leaves the complete
\* snapshot.
C17_SaveAfterBuild ==
    /\ (op.name = "build_and_save_graph" /\ op.pc \in {"dump", "saved"})
           => op.err = ""
    /\ (op.name = "build_and_save_graph" /\ op.pc = "raised") => file = op.previous
    /\ (op.name = "build_and_save_graph" /\ op.pc = "saved")
           => file.exists /\ file.data = save_to_file(graph)

\* The centrality scores the chunks of chunk_metadata carry.
Centrality(g) ==
    [id \in DOMAIN g.chunk_metadata |-> g.chunk_metadata[id].centrality_score]

\* C19: after build_graph or update_graph has returned, PageRank converged
\* or not, the chunks of chunk_metadata carry the scores of one strategy,
\* PageRank or degree centrality, computed over the graph as it is now.
C19_CentralityOverCurrentGraph ==
    (op.name \in {"build_graph", "update_graph"} /\ op.err = "") =>
        \/ Centrality(graph) = Restrict(pagerank(graph), DOMAIN graph.chunk_metadata)
        \/ Centrality(graph) =
               Restrict(degree_centrality(graph), DOMAIN graph.chunk_metadata)

\* An update returned with the degree centrality, which differs from what
\* PageRank gives, on a graph with an edge.
C19_Witness ==
    /\ op.name = "update_graph"
    /\ op.err = ""
    /\ op.new_chunks # <<>>
    /\ DOMAIN graph.edges # {}
    /\ Centrality(graph) = Restrict(degree_centrality(graph), DOMAIN graph.chunk_metadata)
    /\ Centrality(graph) # Restrict(pagerank(graph), DOMAIN graph.chunk_metadata)
    /\ Centrality(graph) # Centrality(op.pre)

\* The chunks of a list on which extraction does not fail.
WellFormed(chunks) == SelectSeq(chunks, LAMBDA c : ~extract_raises(c))

\* C20: when extraction fails on a chunk of the list, build_graph still
\* returns, and the graph is the one built from the other chunks: each of
\* them with its elements, its reference edges and its centrality score.
C20_MalformedChunkSkipped ==
    (op.name = "build_and_save_graph" /\ WellFormed(op.chunks) # op.chunks) =>
        /\ op.err = ""
        /\ \E converged \in BOOLEAN :
              graph = build_graph(WellFormed(op.chunks), op.parent_relationships,
                                  converged).graph

\* C21: a run of retrieve in which one expansion strategy raised goes on to
\* hydration and ranking with the seeds and what the other strategies gave;
\* it does not end in the expansion stage.
C21_StrategyFailureSkipped ==
    (Range(retrieval.stages) \cap {"neighbor", "element", "subgraph"} # {}) =>
        retrieval.pc \in {"hydrate", "rank", "done"}

\* The part of C21 that holds: a strategy that gives no ids does not keep
\* the ids of the others out, and the run goes on to the ranking.
C21_EmptyStrategySkipped ==
    (retrieval.pc \in {"hydrate", "rank", "done"}
        /\ retrieval.initial_chunks # <<>>) =>
        /\ SeedIds \subseteq retrieval.expanded_chunk_ids
        /\ \A i \in 1..Len(retrieval.initial_chunks) :
              retrieval.initial_chunks[i].score >= retrieval.config.relevance_threshold
                  => get_neighbors(graph, retrieval.initial_chunks[i].id,
                                   retrieval.config.max_graph_distance, 30)
                         \subseteq retrieval.expanded_chunk_ids
        /\ Cardinality(retrieval.query_analysis.code_elements) > 1
              => get_subgraph_for_elements(graph,
                     SeqOf(retrieval.query_analysis.code_elements), 1)
                     \subseteq retrieval.expanded_chunk_ids

\* The edges _add_parent_relationships makes.
ParentEdges(g) ==
    {e \in DOMAIN g.edges :
        g.edges[e].element \in {"parent_relationship", "child_relationship"}}

\* The pairs <<S, T>> of chunk ids build_references has to link: a reference
\* of chunk S names an element that another chunk T defines.
ReferencePairs(chunks) ==
    {<<chunks[i].id, chunks[j].id>> : i, j \in 1..Len(chunks)}
        \cap {p \in ChunkIds \X ChunkIds :
                 /\ p[1] # p[2]
                 /\ \E i, j \in 1..Len(chunks) :
                       /\ chunks[i].id = p[1]
                       /\ chunks[j].id = p[2]
                       /\ \E r \in Range(extract_references(chunks[i])),
                             e \in Range(extract_elements(chunks[j])) :
                             r.target_element = e.name}

\* C22: in build_graph no edge exists while the first loop runs; parent and
\* child edges exist only after build_references; compute_centrality_scores
\* has not run before the last step and has run once at the end, when the
\* scores are those of the complete graph; every reference to an element
\* another chunk defines has its edge once build_references is over, also
\* when the defining chunk comes later in the list.
C22_PhasesInOrder ==
    op.name = "build_graph" =>
        /\ op.pc = "phase1" => DOMAIN graph.edges = {}
        /\ op.pc \in {"phase1", "phase25"} => ParentEdges(graph) = {}
        /\ op.centrality_runs = IF op.pc = "done" THEN 1 ELSE 0
        /\ op.pc # "done" =>
               \A id \in DOMAIN graph.chunk_metadata :
                   graph.chunk_metadata[id].centrality_score = 0
        /\ op.pc = "done" =>
               graph = build_graph(op.chunks, op.parent_relationships,
                                   op.converged).graph
        /\ op.pc \in {"phase25", "phase3", "done"} =>
               ReferencePairs(op.chunks) \subseteq DOMAIN graph.edges

\* The build is over and a chunk is linked to a chunk that comes after it in
\* the list.
C22_Witness ==
    /\ op.name = "build_graph"
    /\ op.pc = "done"
    /\ \E i, j \in 1..Len(op.chunks) :
          /\ i < j
          /\ <<op.chunks[i].id, op.chunks[j].id>> \in ReferencePairs(op.chunks)
          /\ <<op.chunks[i].id, op.chunks[j].id>> \in DOMAIN graph.edges

\* The edge attributes build_references gives the edge for reference r of
\* chunk S to chunk T.
EdgeFor(S, T, r) ==
    [element |-> r.target_element,
     weight |-> _calculate_edge_weight(S, T, r),
     reference_type |-> r.reference_type]

\* C23: when build_references is over, for every chunk S, every reference r
\* of S and every other chunk T that defines r's target element, the edge
\* S -> T exists and carries r's element name, kind and weight, also when
\* several references of S lead to T.
C23_EdgePerReference ==
    (op.name = "build_graph" /\ op.pc = "phase25") =>
        \A i, j \in 1..Len(op.chunks) :
            \A r \in Range(extract_references(op.chunks[i])) :
                (/\ op.chunks[i].id # op.chunks[j].id
                 /\ \E e \in Range(extract_elements(op.chunks[j])) :
                       e.name = r.target_element) =>
                    /\ <<op.chunks[i].id, op.chunks[j].id>> \in DOMAIN graph.edges
                    /\ graph.edges[<<op.chunks[i].id, op.chunks[j].id>>]
                           = EdgeFor(op.chunks[i], op.chunks[j], r)

\* The part of C23 that holds: the edge exists and carries the attributes of
\* one of the references of S that lead to T.
C23_EdgeOfSomeReference ==
    (op.name = "build_graph" /\ op.pc = "phase25") =>
        /\ ReferencePairs(op.chunks) = DOMAIN graph.edges
        /\ \A i, j \in 1..Len(op.chunks) :
              <<op.chunks[i].id, op.chunks[j].id>> \in DOMAIN graph.edges =>
                  \E r \in Range(extract_references(op.chunks[i])) :
                      graph.edges[<<op.chunks[i].id, op.chunks[j].id>>]
                          = EdgeFor(op.chunks[i], op.chunks[j], r)

\* The pairs <<child, parent>> of a parent_relationships map.
ParentPairs(parent_relationships) ==
    UNION {{<<parent_relationships[i][1], parent_relationships[i][2][j]>> :
               j \in 1..Len(parent_relationships[i][2])} :
           i \in 1..Len(parent_relationships)}

\* C24: once _add_parent_relationships has run in build_graph, every child c
\* and parent p of the map with c # p are linked by the edges c -> p and
\* p -> c, both of weight 0.85, whatever build_references had put on those
\* pairs; for c = p there is no edge.
C24_ParentEdgesBothWays ==
    (op.name = "build_graph" /\ op.pc \in {"phase3", "done"}) =>
        \A cp \in ParentPairs(op.parent_relationships) :
            IF cp[1] # cp[2]
            THEN /\ cp \in DOMAIN graph.edges
                 /\ <<cp[2], cp[1]>> \in DOMAIN graph.edges
                 /\ graph.edges[cp].weight = 85
                 /\ graph.edges[<<cp[2], cp[1]>>].weight = 85
            ELSE cp \notin DOMAIN graph.edges

\* A child and its parent were already linked by a reference edge of another
\* weight.
C24_Witness ==
    /\ op.name = "build_graph"
    /\ op.pc = "done"
    /\ \E cp \in ParentPairs(op.parent_relationships) :
          /\ cp \in ReferencePairs(op.chunks)
          /\ build_references(AddChunks(CodeGraph, op.chunks, 1), op.chunks,
                              CangjieCodeElementExtractor).graph.edges[cp].weight # 85
          /\ graph.edges[cp].weight = 85

\* The seeds of the running retrieve whose score reaches relevance_threshold.
RelevantSeeds ==
    {i \in 1..Len(retrieval.initial_chunks) :
        retrieval.initial_chunks[i].score >= retrieval.config.relevance_threshold}

\* What get_neighbors answers for seed i of the running retrieve.
SeedNeighbors(i) ==
    get_neighbors(graph, retrieval.initial_chunks[i].id,
                  retrieval.config.max_graph_distance, 30)

Definers(name) ==
    {c.id : c \in {d \in Range(op.chunks) :
                      \E e \in Range(extract_elements(d)) : e.name = name}}

Referrers(name) ==
    {c.id : c \in {d \in Range(op.chunks) :
                      \E r \in Range(extract_references(d)) : r.target_element = name}}

\* The ids of S whose centrality is over 0.1.
Central(S) ==
    {id \in S \cap DOMAIN graph.chunk_metadata :
        graph.chunk_metadata[id].centrality_score > 100}

\* C26: after expansion, for every element the query mentions, every chunk
\* that defines it or holds a reference to it and whose centrality is over
\* 0.1 is in the expansion set.
C26_DefinersAndReferrers ==
    "graph_expansion" \in Range(retrieval.stages) =>
        \A name \in retrieval.query_analysis.code_elements :
            Central(Definers(name) \cup Referrers(name))
                \subseteq retrieval.expanded_chunk_ids

\* What the code does for C26: the defining chunks over 0.1 are in the set,
\* and when no seed reaches the threshold and one element is mentioned the
\* set is the seeds and those chunks, whatever refers to the element.
C26_DefinersOnly ==
    "graph_expansion" \in Range(retrieval.stages) =>
        /\ \A name \in retrieval.query_analysis.code_elements :
              Central(Definers(name)) \subseteq retrieval.expanded_chunk_ids
        /\ (RelevantSeeds = {}
              /\ Cardinality(retrieval.query_analysis.code_elements) = 1) =>
              retrieval.expanded_chunk_ids =
                  SeedIds \cup UNION {Central(Definers(name)) :
                                 name \in retrieval.query_analysis.code_elements}


\* c occurs in element_index[n] exactly when n is an element of
\* chunk_elements[c].
IndexMatchesElements(g) ==
    /\ \A n \in DOMAIN g.element_index : \A c \in Range(g.element_index[n]) :
          c \in DOMAIN g.chunk_elements /\ n \in Range(g.chunk_elements[c])
    /\ \A c \in DOMAIN g.chunk_elements : \A n \in Range(g.chunk_elements[c]) :
          n \in DOMAIN g.element_index /\ c \in Range(g.element_index[n])

\* C29: after build_graph and after every update_graph that follows it, the
\* nodes of the graph, the keys of chunk_metadata and the keys of
\* chunk_elements are the same set, and the element index and
\* chunk_elements list the same (element, chunk) pairs.
C29_NodesAndKeysAgree ==
    /\ graph.nodes = DOMAIN graph.chunk_metadata
    /\ graph.nodes = DOMAIN graph.chunk_elements
    /\ IndexMatchesElements(graph)

\* What the code keeps for C29: the two key sets are equal and are nodes,
\* and the index matches chunk_elements; a node outside the key sets is
\* possible.
C29_KeysAreNodes ==
    /\ DOMAIN graph.chunk_metadata = DOMAIN graph.chunk_elements
    /\ DOMAIN graph.chunk_metadata \subseteq graph.nodes
    /\ IndexMatchesElements(graph)


\* C28: after header splitting, the section_title of every chunk is the
\* title of the header line that opens the chunk's section, and there is no
\* title exactly when the section opens with a line that is no header
\* (content before the first header, a document without headers).
C28_TitleOfOpeningHeader ==
    (op.name = "chunk_content" /\ op.pc # "headers") =>
        \A i \in 1..Len(op.header_chunks) :
            LET first == op.content[op.header_chunks[i].start_line]
            IN op.header_chunks[i].section_title =
                   IF first.k = "header" THEN <<first.title>> ELSE <<>>

\* What the code does for C28: a chunk whose section starts after line 1
\* opens with a header and has its title; the chunk whose section starts
\* at line 1 has no title, header or not.
C28_TitleAfterFirstSection ==
    (op.name = "chunk_content" /\ op.pc # "headers") =>
        \A i \in 1..Len(op.header_chunks) :
            LET first == op.content[op.header_chunks[i].start_line]
            IN IF op.header_chunks[i].start_line > 1
               THEN /\ first.k = "header"
                    /\ op.header_chunks[i].section_title = <<first.title>>
               ELSE op.header_chunks[i].section_title = <<>>


\* The longest word of a chunk.
LongestWord(chunk) ==
    LET lens == {w.len : w \in Range(split(chunk.content))}
    IN IF lens = {} THEN 0 ELSE CHOOSE l \in lens : \A m \in lens : l >= m

\* C27: when chunk_content returns, every header section longer than
\* max_chunk_size has been split into at least two sub-chunks, none longer
\* than max_chunk_size plus one word, and every returned chunk has at least
\* min_chunk_size characters after trimming, whatever the lengths of the
\* words.
C27_LargeSectionsSplit ==
    (op.name = "chunk_content" /\ op.pc = "done") =>
        /\ \A i \in 1..Len(op.header_chunks) :
              Chars(op.header_chunks[i].content) > op.chunker.max_chunk_size =>
                  /\ Len(op.pieces[i]) >= 2
                  /\ \A j \in 1..Len(op.pieces[i]) :
                        Chars(op.pieces[i][j].content)
                            <= op.chunker.max_chunk_size
                                   + LongestWord(op.header_chunks[i])
        /\ \A j \in 1..Len(op.chunks) :
              Chars(strip(op.chunks[j].content)) >= op.chunker.min_chunk_size

\* What the code does for C27: the returned chunks are the pieces of at
\* least min_chunk_size characters, and a section of at most
\* max_chunk_size // 10 words stays whole whatever its length.
C27_SmallChunksDropped ==
    (op.name = "chunk_content" /\ op.pc = "done") =>
        /\ \A j \in 1..Len(op.chunks) :
              Chars(strip(op.chunks[j].content)) >= op.chunker.min_chunk_size
        /\ \A i \in 1..Len(op.header_chunks) : \A j \in 1..Len(op.pieces[i]) :
              Chars(strip(op.pieces[i][j].content)) >= op.chunker.min_chunk_size
                  => op.pieces[i][j] \in Range(op.chunks)
        /\ \A i \in 1..Len(op.header_chunks) :
              Len(split(op.header_chunks[i].content))
                      <= op.chunker.max_chunk_size \div 10
                  => op.pieces[i] = <<op.header_chunks[i]>>

\* The words of sub-chunk j of header chunk i.
PieceWords(i, j) == split(op.pieces[i][j].content)

\* C30: in size splitting every sub-chunk after the first starts with at
\* most overlap_size // 10 words, the last words of the sub-chunk before
\* it, and holds after them only words that no earlier sub-chunk held; with
\* overlap_size < 10, or fewer than 4 words in the sub-chunk before,
\* consecutive sub-chunks share no word.
C30_OverlapBounded ==
    (op.name = "chunk_content" /\ op.pc = "done") =>
        \A i \in 1..Len(op.header_chunks) : \A j \in 2..Len(op.pieces[i]) :
            /\ \E n \in 0..(op.chunker.overlap_size \div 10) :
                  /\ n <= Len(PieceWords(i, j))
                  /\ n <= Len(PieceWords(i, j - 1))
                  /\ \A m \in 1..n :
                        PieceWords(i, j)[m] =
                            PieceWords(i, j - 1)[Len(PieceWords(i, j - 1)) - n + m]
                  /\ \A m \in (n + 1)..Len(PieceWords(i, j)) :
                        \A h \in 1..(j - 1) :
                            PieceWords(i, j)[m] \notin Range(PieceWords(i, h))
            /\ (op.chunker.overlap_size < 10 \/ Len(PieceWords(i, j - 1)) < 4) =>
                  Range(PieceWords(i, j)) \cap Range(PieceWords(i, j - 1)) = {}

\* What the code does for C30: a sub-chunk after the first starts with the
\* last min(overlap_size // 10, words // 4) words of the one before it, and
\* with all its words when that number is 0.
C30_OverlapOrWhole ==
    (op.name = "chunk_content" /\ op.pc = "done") =>
        \A i \in 1..Len(op.header_chunks) : \A j \in 2..Len(op.pieces[i]) :
            LET previous == PieceWords(i, j - 1)
                overlap_words == Min(op.chunker.overlap_size \div 10,
                                     Len(previous) \div 4)
                kept == IF overlap_words = 0 THEN previous
                        ELSE SubSeq(previous, Len(previous) - overlap_words + 1,
                                    Len(previous))
            IN /\ Len(PieceWords(i, j)) >= Len(kept)
               /\ SubSeq(PieceWords(i, j), 1, Len(kept)) = kept
               /\ \A m \in (Len(kept) + 1)..Len(PieceWords(i, j)) :
                     \A h \in 1..(j - 1) :
                         PieceWords(i, j)[m] \notin Range(PieceWords(i, h))

====
